---- MODULE Spec2Model ----
(***************************************************************************)
(* A model of the one_assert procedural macro (src/src/lib.rs).            *)
(*                                                                         *)
(* The macro is a compile-time rewriting of a condition into instrumented  *)
(* code.  The model has two halves:                                        *)
(*   - the expansion: assert_internal / eval_expr / eval_block /           *)
(*     recurse_else_branches and the State methods, as operators over a    *)
(*     syntax tree of records;                                             *)
(*   - the run of the generated code: Exec*, an interpreter of the         *)
(*     generated fragment, next to Eval*, the evaluation of the original   *)
(*     condition, so that what the generated code does at run time can be  *)
(*     stated.                                                             *)
(*                                                                         *)
(* Text.  A string is a sequence of atoms; an atom is a TLA+ string that   *)
(* holds no brace, or the one-character atom "{" or "}".  Braces are kept  *)
(* apart because printable_expr_string doubles them and the formatting of  *)
(* the panic message reads them.  StrLen is the length in characters.      *)
(* A token is a string, a token stream a sequence of tokens.  The display  *)
(* of a token stream (proc_macro2, outside the repository) is modelled as  *)
(* the tokens separated by one space.                                      *)
(*                                                                         *)
(* Attribute lists (attrs) are carried through as token streams.           *)
(* Spans are carried only where the code manipulates them (FullSpan).      *)
(***************************************************************************)
EXTENDS Integers, Sequences, FiniteSets, TLC

VARIABLES
    input,    \* the tokens the macro is invoked on
    pc,       \* "input" -> "args" -> "expanded" | "rejected" -> "done"
    expr,     \* Args.expr: the condition
    format,   \* Args.format: the token stream after the comma (<<>> when absent)
    output,   \* what assert_internal returned: generated code or an error
    run       \* the run of the generated code: env, outcome, trace, message

vars == <<input, pc, expr, format, output, run>>

(***************************************************************************)
(* Strings                                                                 *)
(***************************************************************************)

Max(a, b) == IF a >= b THEN a ELSE b

\* The operators on strings split their argument in halves, which keeps
\* the depth of the evaluation logarithmic in its length.

RECURSIVE StrLen(_)
\* str::len
StrLen(s) ==
    IF s = <<>> THEN 0
    ELSE IF Len(s) = 1 THEN Len(s[1])
    ELSE StrLen(SubSeq(s, 1, Len(s) \div 2)) + StrLen(SubSeq(s, Len(s) \div 2 + 1, Len(s)))

RECURSIVE Text(_)
\* the atoms of a string run together: one TLA+ string, for comparison
Text(s) ==
    IF s = <<>> THEN ""
    ELSE IF Len(s) = 1 THEN s[1]
    ELSE Text(SubSeq(s, 1, Len(s) \div 2)) \o Text(SubSeq(s, Len(s) \div 2 + 1, Len(s)))

RECURSIVE Flatten(_)
\* the concatenation of a sequence of sequences
Flatten(ss) ==
    IF ss = <<>> THEN <<>>
    ELSE IF Len(ss) = 1 THEN ss[1]
    ELSE Flatten(SubSeq(ss, 1, Len(ss) \div 2)) \o Flatten(SubSeq(ss, Len(ss) \div 2 + 1, Len(ss)))

Spaces(n) == [i \in 1..n |-> " "]

\* format!("{s:>w$}"): right-aligned in a field of w characters
PadLeft(s, w) == Spaces(Max(w - StrLen(s), 0)) \o s

\* The grave accent of the messages.  SANY admits no grave accent inside a
\* string, so the atom that stands for it is the apostrophe: one character,
\* as in the source, which is all that the layout of the messages reads.
Backtick == "'"

Digits == <<"0", "1", "2", "3", "4", "5", "6", "7", "8", "9">>

RECURSIVE to_string(_)
\* usize::to_string: the decimal digits
to_string(n) ==
    IF n < 10 THEN Digits[n + 1]
    ELSE to_string(n \div 10) \o Digits[(n % 10) + 1]

\* str::replace(from, to) for a one-character from: every atom equal to
\* from becomes the atoms of to
replace(s, from, to) ==
    Flatten([i \in 1..Len(s) |-> IF s[i] = from THEN to ELSE <<s[i]>>])

\* TokenStream::to_string
TokensToString(ts) ==
    Flatten([i \in 1..Len(ts) |-> IF i = 1 THEN ts[i] ELSE <<" ">> \o ts[i]])

Tok(a) == << <<a>> >>     \* the token stream of one brace-free token

(***************************************************************************)
(* Syntax trees (syn::Expr, syn::Stmt, syn::Arm) and their tokens          *)
(***************************************************************************)

\* kinds eval_expr leaves alone
PassKinds == {"Array", "Await", "Cast", "Closure", "Field", "Infer", "Lit",
              "Loop", "Macro", "Path", "Range", "Reference", "Repeat", "Try",
              "Tuple", "Verbatim", "TryBlock", "Yield"}

\* kinds eval_expr rejects
RejectKinds == {"Assign", "Async", "Break", "Continue", "ForLoop", "Let",
                "Return", "Struct", "While"}

RECURSIVE Tokens(_)
RECURSIVE ArgTokens(_)
RECURSIVE StmtsTokens(_)
RECURSIVE ArmsTokens(_)

\* Punctuated<Expr, Token![,]>::to_tokens
ArgTokens(args) ==
    IF args = <<>> THEN <<>>
    ELSE IF Len(args) = 1 THEN Tokens(args[1])
    ELSE Tokens(args[1]) \o Tok(",") \o ArgTokens(Tail(args))

StmtTokens(s) ==
    CASE s.kind = "Expr" -> Tokens(s.expr) \o (IF s.semi THEN Tok(";") ELSE <<>>)
      [] OTHER -> s.tok \o (IF s.semi THEN Tok(";") ELSE <<>>)

StmtsTokens(stmts) ==
    IF stmts = <<>> THEN <<>> ELSE StmtTokens(Head(stmts)) \o StmtsTokens(Tail(stmts))

BlockTokens(stmts) == Tok("{") \o StmtsTokens(stmts) \o Tok("}")

GuardTokens(arm) == IF arm.guard = <<>> THEN <<>> ELSE Tok("if") \o Tokens(arm.guard[1])

ArmsTokens(arms) ==
    IF arms = <<>> THEN <<>>
    ELSE arms[1].pat \o GuardTokens(arms[1]) \o Tok("=>") \o Tokens(arms[1].body)
         \o Tok(",") \o ArmsTokens(Tail(arms))

\* ToTokens for syn::Expr
Tokens(e) ==
    CASE e.kind = "Binary" -> e.attrs \o Tokens(e.left) \o Tok(e.op) \o Tokens(e.right)
      [] e.kind = "Unary" -> e.attrs \o Tok(e.op) \o Tokens(e.expr)
      [] e.kind = "Call" ->
            e.attrs \o Tokens(e.func) \o Tok("(") \o ArgTokens(e.args) \o Tok(")")
      [] e.kind = "MethodCall" ->
            e.attrs \o Tokens(e.receiver) \o Tok(".") \o Tok(e.method) \o e.turbofish
            \o Tok("(") \o ArgTokens(e.args) \o Tok(")")
      [] e.kind = "Index" ->
            e.attrs \o Tokens(e.expr) \o Tok("[") \o Tokens(e.index) \o Tok("]")
      [] e.kind = "Paren" -> Tok("(") \o Tokens(e.expr) \o Tok(")")
      [] e.kind = "Group" -> Tokens(e.expr)
      [] e.kind = "Cast" -> Tokens(e.expr) \o Tok("as") \o e.ty
      [] e.kind = "Block" -> BlockTokens(e.stmts)
      [] e.kind = "Const" -> Tok("const") \o BlockTokens(e.stmts)
      [] e.kind = "Unsafe" -> e.attrs \o Tok("unsafe") \o BlockTokens(e.stmts)
      [] e.kind = "If" ->
            e.attrs \o Tok("if") \o Tokens(e.cond) \o BlockTokens(e.then_branch)
            \o (IF e.else_branch = <<>> THEN <<>>
                ELSE Tok("else") \o Tokens(e.else_branch[1]))
      [] e.kind = "Match" ->
            e.attrs \o Tok("match") \o Tokens(e.expr) \o Tok("{") \o ArmsTokens(e.arms)
            \o Tok("}")
      [] OTHER -> e.tok

\* constructors
Path(name) == [kind |-> "Path", tok |-> Tok(name), name |-> name]
Lit(text) == [kind |-> "Lit", tok |-> Tok(text), text |-> text]
Binary(l, op, r) == [kind |-> "Binary", attrs |-> <<>>, left |-> l, op |-> op, right |-> r]
Unary(op, e) == [kind |-> "Unary", attrs |-> <<>>, op |-> op, expr |-> e]
Call(f, args) == [kind |-> "Call", attrs |-> <<>>, func |-> f, args |-> args]
MethodCall(recv, m, tf, args) ==
    [kind |-> "MethodCall", attrs |-> <<>>, receiver |-> recv, method |-> m,
     turbofish |-> tf, args |-> args]
Index(e, i) == [kind |-> "Index", attrs |-> <<>>, expr |-> e, index |-> i]
Paren(e) == [kind |-> "Paren", expr |-> e]
Group(e) == [kind |-> "Group", expr |-> e]
Cast(e, ty) == [kind |-> "Cast", expr |-> e, ty |-> ty]
Block(stmts) == [kind |-> "Block", stmts |-> stmts]
Const(stmts) == [kind |-> "Const", stmts |-> stmts]
Unsafe(stmts) == [kind |-> "Unsafe", attrs |-> <<>>, stmts |-> stmts]
If(c, t, e) == [kind |-> "If", attrs |-> <<>>, cond |-> c, then_branch |-> t, else_branch |-> e]
Match(e, arms) == [kind |-> "Match", attrs |-> <<>>, expr |-> e, arms |-> arms]
Arm(pat, guard, body) == [pat |-> pat, guard |-> guard, body |-> body]
\* a node of a kind the code does not look into: its tokens, and the name
\* under which the run-time environment holds its value
Opaque(kind, tok, name) == [kind |-> kind, tok |-> tok, name |-> name]
ExprStmt(e, semi) == [kind |-> "Expr", expr |-> e, semi |-> semi]
\* let name = init;
Local(name, init) ==
    [kind |-> "Local", semi |-> TRUE, name |-> name, init |-> init,
     tok |-> Tok("let") \o Tok(name) \o Tok("=") \o Tokens(init)]
\* a macro invocation in statement position (syn::Stmt::Macro)
MacroStmt(tok, name, semi) == [kind |-> "Macro", semi |-> semi, tok |-> tok, name |-> name]

(***************************************************************************)
(* State (lib.rs:156-252)                                                  *)
(***************************************************************************)

\* fn printable_expr_string: the display of the tokens with braces doubled
\* printable_expr_string as it would be without the doubling of the braces
printable_expr_string_raw(tokens) == TokensToString(tokens)

printable_expr_string(tokens) ==
    replace(replace(TokensToString(tokens), "{", <<"{", "{">>), "}", <<"}", "}">>)

\* State::new as it would be with the counter left where an earlier
\* expansion had taken it
State_new_continued ==
    [setup |-> <<>>, format_message |-> <<>>, dynamic_args |-> <<>>,
     variables |-> <<>>, possibly_unsafe |-> <<>>, next_ident_id |-> 1]

State_new ==
    [setup |-> <<>>, format_message |-> <<>>, dynamic_args |-> <<>>,
     variables |-> <<>>, possibly_unsafe |-> <<>>, next_ident_id |-> 0]

\* fork as it would be with the setup carried into the branch
fork_keeping_setup(state) ==
    [setup |-> state.setup,
     format_message |-> state.format_message,
     dynamic_args |-> state.dynamic_args,
     variables |-> state.variables,
     possibly_unsafe |-> <<>>,
     next_ident_id |-> state.next_ident_id]

\* fork as it would be with the unsafe qualifier carried into the branch
fork_keeping_unsafe(state) ==
    [setup |-> <<>>,
     format_message |-> state.format_message,
     dynamic_args |-> state.dynamic_args,
     variables |-> state.variables,
     possibly_unsafe |-> state.possibly_unsafe,
     next_ident_id |-> state.next_ident_id]

\* fork as it would be with the counter started again
fork_restarting(state) ==
    [setup |-> <<>>,
     format_message |-> state.format_message,
     dynamic_args |-> state.dynamic_args,
     variables |-> state.variables,
     possibly_unsafe |-> <<>>,
     next_ident_id |-> 0]

fork(state) ==
    [setup |-> <<>>,
     format_message |-> state.format_message,
     dynamic_args |-> state.dynamic_args,
     variables |-> state.variables,
     possibly_unsafe |-> <<>>,
     next_ident_id |-> state.next_ident_id]

\* the identifier create_ident makes, and the state after it
create_ident_name(state, name) == "__one_assert_" \o name \o "_" \o to_string(state.next_ident_id)

\* create_ident as it would be with the counter left as it is
create_ident_stuck(state, name) ==
    [ident |-> create_ident_name(state, name),
     state |-> state]

create_ident(state, name) ==
    [ident |-> create_ident_name(state, name),
     state |-> [state EXCEPT !.next_ident_id = @ + 1]]

\* utils::FullSpan::from_spanned: the spans of the first and of the last token
FullSpan_from_spanned(tokens) ==
    IF tokens = <<>> THEN <<>> ELSE <<tokens[1], tokens[Len(tokens)]>>

\* utils::FullSpan::apply(a, b): a spanned with the start, b with the end
FullSpan_apply(span, ident) == [kind |-> "Access", ident |-> ident, span |-> span]

WrapStmt(ident, e) == [stmt |-> "let_wrap", ident |-> ident, expr |-> e]
DebugStmt(ident, access) == [stmt |-> "let_str", ident |-> ident, arg |-> access]

add_var_path(e, identifier, display, state) ==
    LET s1 == create_ident(state, identifier \o "_str")
    IN  [access |-> e,
         state |-> [s1.state EXCEPT
             !.setup = @ \o <<DebugStmt(s1.ident, e)>>,
             !.variables = @ \o <<[name |-> display, var |-> s1.ident]>>]]

\* add_var as it would be if the predicate kept the expression itself: the
\* binding is made and shown, and the expression is evaluated again
add_var_reevaluated(e, identifier, display, state) ==
    LET s1 == create_ident(state, identifier \o "_str")
        s2 == create_ident(s1.state, identifier)
        var_access == FullSpan_apply(FullSpan_from_spanned(Tokens(e)), s2.ident)
    IN  [access |-> e,
         state |-> [s2.state EXCEPT
             !.setup = @ \o <<WrapStmt(s2.ident, e), DebugStmt(s1.ident, var_access)>>,
             !.variables = @ \o <<[name |-> display, var |-> s1.ident]>>]]

add_var_wrapped(e, identifier, display, state) ==
    LET s1 == create_ident(state, identifier \o "_str")
        s2 == create_ident(s1.state, identifier)
        var_access == FullSpan_apply(FullSpan_from_spanned(Tokens(e)), s2.ident)
    IN  [access |-> var_access,
         state |-> [s2.state EXCEPT
             !.setup = @ \o <<WrapStmt(s2.ident, e), DebugStmt(s1.ident, var_access)>>,
             !.variables = @ \o <<[name |-> display, var |-> s1.ident]>>]]

\* State::add_var: [access, state]
add_var(e, identifier, display, state) ==
    IF e.kind = "Path"
    THEN add_var_path(e, identifier, display, state)
    ELSE add_var_wrapped(e, identifier, display, state)

\* variables.iter().map(|(name, _)| name.len()).max().unwrap_or(0)
max_name_len(variables) ==
    IF variables = <<>> THEN 0
    ELSE LET lens == {StrLen(variables[i].name) : i \in 1..Len(variables)}
         IN  CHOOSE m \in lens : \A n \in lens : n <= m

\* format!("\n    {name:>max_name_len$}: {{}}") for every variable
VariableLines(variables, width) ==
    Flatten([i \in 1..Len(variables) |->
                <<"\n", "    ">> \o PadLeft(variables[i].name, width) \o <<": ", "{", "}">>])

\* State::resolve_variables
resolve_variables(state) ==
    [state EXCEPT
        !.format_message = @ \o VariableLines(state.variables, max_name_len(state.variables)),
        !.dynamic_args = @ \o [i \in 1..Len(state.variables) |->
                                 [arg |-> "var", ident |-> state.variables[i].var]],
        !.variables = <<>>]

\* State::add_cause
add_cause(state, cause) ==
    [state EXCEPT !.format_message = @ \o <<"\n", "  caused by: ">> \o cause]

(***************************************************************************)
(* eval_expr (lib.rs:282-650).  The generated code is kept as a tree:      *)
(*   [gen |-> "check", ...]     #possibly_unsafe { #setup if #cond {} else *)
(*                              { panic!(#format_message, #dynamic_args) } }*)
(*   [gen |-> "if", ...]        the If arm's output                        *)
(*   [gen |-> "match", ...]     the Match arm's output                     *)
(*   [gen |-> "if_block", ...]  eval_block's output without a tail         *)
(*   [gen |-> "error", ...]     Err(..)                                    *)
(* and the predicate as a syntax tree whose captured operands are Access   *)
(* nodes, which is what the compiler parses the emitted tokens into.       *)
(***************************************************************************)

Err(msg, span) == [gen |-> "error", msg |-> msg, span |-> span]
IsErr(g) == g.gen = "error"

\* the message of each rejected kind, and what the error is spanned with
RejectMessage(kind) ==
    CASE kind = "Assign" -> "Expected a boolean expression, found an assignment. Did you intend to compare with "
            \o Backtick \o "==" \o Backtick \o "?"
      [] kind = "Async" -> "Expected a boolean expression, found an async block. Did you intend to await a future?"
      [] kind = "Break" -> "Expected a boolean expression, found a break statement"
      [] kind = "Continue" -> "Expected a boolean expression, found a continue statement"
      [] kind = "ForLoop" -> "Expected a boolean expression, found a for loop"
      [] kind = "Let" -> "Expected a boolean expression, found a let statement"
      [] kind = "Return" -> "Expected a boolean expression, found a return statement"
      [] kind = "Struct" -> "Expected a boolean expression, found a struct literal"
      [] kind = "While" -> "Expected a boolean expression, found a while loop"

eval_Reject(e) ==
    Err(RejectMessage(e.kind), IF e.kind = "Assign" THEN Tok("=") ELSE e.tok)

\* eval_Binary as it would be with the right operand captured first
eval_Binary_rhs_first(e, state) ==
    LET rhs == add_var(e.right, "rhs", <<"right">>, state)
        lhs == add_var(e.left, "lhs", <<"left">>, rhs.state)
    IN  [state |-> lhs.state,
         assert_condition |-> [kind |-> "Binary", attrs |-> e.attrs,
                               left |-> lhs.access, op |-> e.op, right |-> rhs.access]]

\* syn::Expr::Binary
eval_Binary(e, state) ==
    LET lhs == add_var(e.left, "lhs", <<"left">>, state)
        rhs == add_var(e.right, "rhs", <<"right">>, lhs.state)
    IN  [state |-> rhs.state,
         assert_condition |-> [kind |-> "Binary", attrs |-> e.attrs,
                               left |-> lhs.access, op |-> e.op, right |-> rhs.access]]

\* the name under which argument i is displayed: format!("arg {i:>index_len$}")
ArgDisplay(i, index_len) == <<"arg ">> \o PadLeft(<<to_string(i)>>, index_len)

RECURSIVE add_args(_, _, _, _)
\* args.into_iter().enumerate().map(|(i, arg)| state.add_var(..)), from index i on
add_args(args, i, index_len, state) ==
    IF args = <<>> THEN [state |-> state, out_args |-> <<>>]
    ELSE LET v == add_var(Head(args), "arg" \o to_string(i), ArgDisplay(i, index_len), state)
             rest == add_args(Tail(args), i + 1, index_len, v.state)
         IN  IF v.state.next_ident_id > state.next_ident_id
             THEN [state |-> rest.state, out_args |-> <<v.access>> \o rest.out_args]
             ELSE [state |-> state, out_args |-> <<>>]

\* IndexLen as it would be with the digits of the length counted
IndexLen_of_len(n) == Len(to_string(n))

\* (args.len() - 1).to_string().len()
IndexLen(n) == Len(to_string(n - 1))

\* syn::Expr::Call, args not empty
eval_Call(e, state) ==
    LET index_len == IndexLen(Len(e.args))
        r == add_args(e.args, 0, index_len, state)
    IN  [state |-> r.state,
         assert_condition |-> [kind |-> "Call", attrs |-> e.attrs, func |-> e.func,
                               args |-> r.out_args]]

\* eval_MethodCall as it would be with the turbofish left out
eval_MethodCall_no_turbofish(e, state) ==
    LET obj == add_var(e.receiver, "object", <<"object">>, state)
        index_len == IndexLen(Max(Len(e.args), 1))
        r == add_args(e.args, 0, index_len, obj.state)
    IN  [state |-> r.state,
         assert_condition |-> [kind |-> "MethodCall", attrs |-> e.attrs,
                               receiver |-> obj.access, method |-> e.method,
                               turbofish |-> <<>>, args |-> r.out_args]]

\* syn::Expr::MethodCall
eval_MethodCall(e, state) ==
    LET obj == add_var(e.receiver, "object", <<"object">>, state)
        index_len == IndexLen(Max(Len(e.args), 1))    \* saturating_sub(1)
        r == add_args(e.args, 0, index_len, obj.state)
    IN  [state |-> r.state,
         assert_condition |-> [kind |-> "MethodCall", attrs |-> e.attrs,
                               receiver |-> obj.access, method |-> e.method,
                               turbofish |-> e.turbofish, args |-> r.out_args]]

\* eval_Index as it would be without the test for a literal index
eval_Index_always(e, state) ==
    LET index == add_var(e.index, "index", <<"index">>, state)
    IN  [state |-> index.state,
         assert_condition |-> [kind |-> "Index", attrs |-> e.attrs, expr |-> e.expr,
                               index |-> index.access]]

\* syn::Expr::Index
eval_Index(e, state) ==
    IF e.index.kind # "Lit"
    THEN LET index == add_var(e.index, "index", <<"index">>, state)
         IN  [state |-> index.state,
              assert_condition |-> [kind |-> "Index", attrs |-> e.attrs, expr |-> e.expr,
                                    index |-> index.access]]
    ELSE [state |-> state, assert_condition |-> e]

\* eval_Unary as it would be with the operand shown under another name
eval_Unary_operand(e, state) ==
    LET original == add_var(e.expr, "original", <<"operand">>, state)
    IN  [state |-> original.state,
         assert_condition |-> [kind |-> "Unary", attrs |-> e.attrs, op |-> e.op,
                               expr |-> original.access]]

\* syn::Expr::Unary
eval_Unary(e, state) ==
    LET original == add_var(e.expr, "original", <<"original">>, state)
    IN  [state |-> original.state,
         assert_condition |-> [kind |-> "Unary", attrs |-> e.attrs, op |-> e.op,
                               expr |-> original.access]]

\* eval_Arm as it would be with the operand of a cast captured
eval_Arm_cast_captured(e, state) ==
    CASE e.kind = "Binary" -> eval_Binary(e, state)
      [] e.kind = "Call" /\ e.args # <<>> -> eval_Call(e, state)
      [] e.kind = "Index" -> eval_Index(e, state)
      [] e.kind = "MethodCall" -> eval_MethodCall(e, state)
      [] e.kind = "Unary" -> eval_Unary(e, state)
      [] e.kind = "Cast" ->
            LET original == add_var(e.expr, "original", <<"original">>, state)
            IN  [state |-> original.state,
                 assert_condition |-> [e EXCEPT !.expr = original.access]]
      [] OTHER -> [state |-> state, assert_condition |-> e]

\* eval_Arm as it would be with the operand of a cast shown as input
eval_Arm_cast_input(e, state) ==
    CASE e.kind = "Binary" -> eval_Binary(e, state)
      [] e.kind = "Call" /\ e.args # <<>> -> eval_Call(e, state)
      [] e.kind = "Index" -> eval_Index(e, state)
      [] e.kind = "MethodCall" -> eval_MethodCall(e, state)
      [] e.kind = "Unary" -> eval_Unary(e, state)
      [] e.kind = "Cast" ->
            LET operand == add_var(e.expr, "input", <<"input">>, state)
            IN  [state |-> operand.state,
                 assert_condition |-> [e EXCEPT !.expr = operand.access]]
      [] OTHER -> [state |-> state, assert_condition |-> e]

\* the arms of eval_expr that fall through to the end of the match:
\* [state, assert_condition]
eval_Arm(e, state) ==
    CASE e.kind = "Binary" -> eval_Binary(e, state)
      [] e.kind = "Call" /\ e.args # <<>> -> eval_Call(e, state)
      [] e.kind = "Index" -> eval_Index(e, state)
      [] e.kind = "MethodCall" -> eval_MethodCall(e, state)
      [] e.kind = "Unary" -> eval_Unary(e, state)
      [] OTHER -> [state |-> state, assert_condition |-> e]

\* lib.rs:626-649: the end of eval_expr
eval_Output(r) ==
    LET state == resolve_variables(r.state)
    IN  [gen |-> "check",
         possibly_unsafe |-> state.possibly_unsafe,
         setup |-> state.setup,
         assert_condition |-> r.assert_condition,
         format_message |-> state.format_message,
         dynamic_args |-> state.dynamic_args]

UserStmts(stmts) == [i \in 1..Len(stmts) |-> [stmt |-> "user", s |-> stmts[i]]]

\* let Some(syn::Stmt::Expr(expr, None)) = block.stmts.pop()
HasTailExpr(stmts) ==
    /\ stmts # <<>>
    /\ stmts[Len(stmts)].kind = "Expr"
    /\ ~stmts[Len(stmts)].semi

BlockCause(tail) ==
    <<"block return assertion ", Backtick>> \o printable_expr_string(Tokens(tail)) \o <<Backtick, " failed">>

ConditionDisplay(cond) ==
    <<"condition ", Backtick>> \o printable_expr_string(Tokens(cond)) \o <<Backtick>>

\* the cause of an arm as it would be without the guard
ArmCause_no_guard(scrutinee, arm) ==
    <<"match ">> \o printable_expr_string(Tokens(scrutinee)) \o <<" entered arm ", Backtick>>
    \o printable_expr_string(arm.pat) \o <<Backtick, " where assertion ", Backtick>>
    \o printable_expr_string(Tokens(arm.body)) \o <<Backtick, " failed">>

ArmCause(scrutinee, arm) ==
    <<"match ">> \o printable_expr_string(Tokens(scrutinee)) \o <<" entered arm ", Backtick>>
    \o printable_expr_string(arm.pat \o GuardTokens(arm)) \o <<Backtick, " where assertion ", Backtick>>
    \o printable_expr_string(Tokens(arm.body)) \o <<Backtick, " failed">>

RECURSIVE eval_expr(_, _)
RECURSIVE eval_block(_, _)
RECURSIVE recurse_else_branches(_, _)
RECURSIVE eval_arms(_, _, _)

\* eval_block as it would be with the statements hoisted before the setup
\* generated so far
eval_block_hoisted_first(stmts, state0) ==
    LET state == resolve_variables(state0)
    IN  IF ~HasTailExpr(stmts)
        THEN [gen |-> "if_block",
              possibly_unsafe |-> state.possibly_unsafe,
              setup |-> state.setup,
              original_tokens |-> Block(stmts)]
        ELSE LET tail == stmts[Len(stmts)].expr
                 s1 == add_cause(state, BlockCause(tail))
                 s2 == [s1 EXCEPT !.setup = UserStmts(SubSeq(stmts, 1, Len(stmts) - 1)) \o @]
             IN  eval_expr(tail, s2)

\* lib.rs:652-680
eval_block(stmts, state0) ==
    LET state == resolve_variables(state0)
    IN  IF ~HasTailExpr(stmts)
        THEN [gen |-> "if_block",
              possibly_unsafe |-> state.possibly_unsafe,
              setup |-> state.setup,
              original_tokens |-> Block(stmts)]
        ELSE LET tail == stmts[Len(stmts)].expr
                 s1 == add_cause(state, BlockCause(tail))
                 s2 == [s1 EXCEPT !.setup = @ \o UserStmts(SubSeq(stmts, 1, Len(stmts) - 1))]
             IN  eval_expr(tail, s2)

\* eval_If as it would be with the variables resolved before the branches
\* are classified
eval_If_resolved_first(e, state0) ==
    LET condition == add_var(e.cond, "condition", ConditionDisplay(e.cond), state0)
        state == resolve_variables(condition.state)
        then_branch == eval_block(e.then_branch, fork(state))
        else_branches == recurse_else_branches(e.else_branch[1], fork(state))
    IN  IF IsErr(then_branch) THEN then_branch
        ELSE IF IsErr(else_branches) THEN else_branches
        ELSE [gen |-> "if",
              possibly_unsafe |-> state.possibly_unsafe,
              setup |-> state.setup,
              attrs |-> e.attrs,
              condition |-> condition.access,
              then_branch |-> then_branch,
              else_branches |-> else_branches]

\* syn::Expr::If with an else branch (lib.rs:382-415)
eval_If(e, state0) ==
    LET condition == add_var(e.cond, "condition", ConditionDisplay(e.cond), state0)
        then_branch == eval_block(e.then_branch, fork(condition.state))
        else_branches == recurse_else_branches(e.else_branch[1], fork(condition.state))
        state == resolve_variables(condition.state)
    IN  IF IsErr(then_branch) THEN then_branch
        ELSE IF IsErr(else_branches) THEN else_branches
        ELSE [gen |-> "if",
              possibly_unsafe |-> state.possibly_unsafe,
              setup |-> state.setup,
              attrs |-> e.attrs,
              condition |-> condition.access,
              then_branch |-> then_branch,
              else_branches |-> else_branches]

\* lib.rs:682-726
recurse_else_branches(branch, state0) ==
    CASE branch.kind = "Block" ->
            LET body == eval_block(branch.stmts, state0)
            IN  IF IsErr(body) THEN body ELSE [gen |-> "else_block", body |-> body]
      [] branch.kind = "If" /\ branch.else_branch # <<>> ->
            LET condition == add_var(branch.cond, "condition",
                                     ConditionDisplay(branch.cond), state0)
                then_branch == eval_block(branch.then_branch, fork(condition.state))
                else_branches == recurse_else_branches(branch.else_branch[1],
                                                       fork(condition.state))
                state == resolve_variables(condition.state)
            IN  IF IsErr(then_branch) THEN then_branch
                ELSE IF IsErr(else_branches) THEN else_branches
                ELSE [gen |-> "else_if",
                      setup |-> state.setup,
                      attrs |-> branch.attrs,
                      condition |-> condition.access,
                      then_branch |-> then_branch,
                      else_branches |-> else_branches]
      [] branch.kind = "If" -> [gen |-> "raw", tokens |-> branch]
      [] OTHER -> Err("parsing error: expected else block or if-else chain", Tokens(branch))

\* the loop over the arms (lib.rs:481-512): the arms' outputs, or the first error
\* the arm loop as it would be if an arm that is rejected were left out
eval_arms_skipping(arms, scrutinee, state) ==
    IF arms = <<>> THEN [gen |-> "arms", arms |-> <<>>]
    ELSE LET arm == Head(arms)
             arm_state == add_cause(fork(state), ArmCause(scrutinee, arm))
             assert_eval == eval_expr(arm.body, arm_state)
             rest == eval_arms(Tail(arms), scrutinee, state)
         IN  IF IsErr(assert_eval) THEN rest
             ELSE IF IsErr(rest) THEN rest
             ELSE [gen |-> "arms",
                   arms |-> <<[pat |-> arm.pat, guard |-> arm.guard,
                               body |-> assert_eval]>> \o rest.arms]

eval_arms(arms, scrutinee, state) ==
    IF arms = <<>> THEN [gen |-> "arms", arms |-> <<>>]
    ELSE LET arm == Head(arms)
             arm_state == add_cause(fork(state), ArmCause(scrutinee, arm))
             assert_eval == eval_expr(arm.body, arm_state)
             rest == eval_arms(Tail(arms), scrutinee, state)
         IN  IF IsErr(assert_eval) THEN assert_eval
             ELSE IF IsErr(rest) THEN rest
             ELSE [gen |-> "arms",
                   arms |-> <<[pat |-> arm.pat, guard |-> arm.guard,
                               body |-> assert_eval]>> \o rest.arms]

\* syn::Expr::Match (lib.rs:467-532)
eval_Match(e, state0) ==
    LET match_expr == add_var(e.expr, "matched", <<"matched value">>, state0)
        state == resolve_variables(match_expr.state)
        arms_output == eval_arms(e.arms, e.expr, state)
    IN  IF IsErr(arms_output) THEN arms_output
        ELSE [gen |-> "match",
              possibly_unsafe |-> state.possibly_unsafe,
              setup |-> state.setup,
              attrs |-> e.attrs,
              match_expr |-> match_expr.access,
              arms |-> arms_output.arms]

\* syn::Expr::Unsafe (lib.rs:600-608)
eval_Unsafe(e, state) ==
    eval_block(e.stmts, [state EXCEPT !.possibly_unsafe = e.attrs \o Tok("unsafe")])

eval_expr(e, state) ==
    CASE e.kind \in RejectKinds -> eval_Reject(e)
      [] e.kind \in {"Block", "Const"} -> eval_block(e.stmts, state)
      [] e.kind \in {"Group", "Paren"} -> eval_expr(e.expr, state)
      [] e.kind = "If" /\ e.else_branch # <<>> -> eval_If(e, state)
      [] e.kind = "Match" -> eval_Match(e, state)
      [] e.kind = "Unsafe" -> eval_Unsafe(e, state)
      [] OTHER -> eval_Output(eval_Arm(e, state))

(***************************************************************************)
(* Args::parse.  The input is a sequence of items: a complete expression,  *)
(* a comma, a binary operator, or the tokens of a format message.          *)
(***************************************************************************)

ExprItem(e) == [tok |-> "expr", expr |-> e]
CommaItem == [tok |-> ","]
PlusItem == [tok |-> "+"]
FormatItem(fmt) == [tok |-> "format", fmt |-> fmt]

\* the tokens that parse to a condition and a format message
InputOf(e, fmt) ==
    <<ExprItem(e)>> \o (IF fmt = <<>> THEN <<>> ELSE <<CommaItem, FormatItem(fmt[1])>>)

\* input.parse::<syn::Expr>() on a non-empty input: the expression and what
\* is left, or the error and what is left where the parser stopped
syn_parse_expr(items) ==
    IF Head(items).tok # "expr"
    THEN [ok |-> FALSE, rest |-> items, msg |-> "expected an expression",
          span |-> <<Head(items)>>]
    ELSE IF Len(items) >= 2 /\ items[2].tok = "+"
         THEN IF Len(items) >= 3 /\ items[3].tok = "expr"
              THEN [ok |-> TRUE, expr |-> Binary(items[1].expr, "+", items[3].expr),
                    rest |-> SubSeq(items, 4, Len(items))]
              ELSE IF Len(items) = 2
                   THEN [ok |-> FALSE, rest |-> <<>>,
                         msg |-> "unexpected end of input, expected an expression",
                         span |-> <<>>]
                   ELSE [ok |-> FALSE, rest |-> SubSeq(items, 3, Len(items)),
                         msg |-> "expected an expression", span |-> <<items[3]>>]
         ELSE [ok |-> TRUE, expr |-> Head(items).expr, rest |-> Tail(items)]

\* input.parse::<TokenStream>(): whatever is left
parse_format(items) == IF items = <<>> THEN <<>> ELSE <<Head(items).fmt>>

Args(e, fmt) == [gen |-> "args", expr |-> e, format |-> fmt]

\* the rest of Args::parse once the expression was tried (r)
Args_parse_rest(items, r) ==
    IF ~r.ok
    THEN IF r.rest = <<>>
         THEN Err("incomplete expression: " \o r.msg, items)
         ELSE IF Head(r.rest).tok = ","
              THEN Err("Expression before the comma is incomplete: " \o r.msg,
                       <<Head(r.rest)>>)
              ELSE Err(r.msg, r.span)
    ELSE IF r.rest = <<>> THEN Args(r.expr, <<>>)
         ELSE IF Head(r.rest).tok # ","
              THEN Err("condition has to be followed by a comma, if a message is provided",
                       <<Head(r.rest)>>)
              ELSE Args(r.expr, parse_format(Tail(r.rest)))

\* lib.rs:108-145
Args_parse(items) ==
    IF items = <<>> THEN Err("missing condition to check", <<>>)
    ELSE Args_parse_rest(items, syn_parse_expr(items))

StructStmt == [stmt |-> "struct"]     \* struct __OneAssertWrapper<T>(T);

Header(expr_str) == <<"assertion ", Backtick>> \o expr_str \o <<Backtick, " failed">>

FormatArgs(fmt) == [arg |-> "format_args", tokens |-> fmt]

\* the initial State as it would be without the separator before the
\* user's message
InitialState_unseparated(expr_str, fmt) ==
    [State_new EXCEPT
        !.setup = <<StructStmt>>,
        !.format_message = Header(expr_str) \o (IF fmt # <<>> THEN <<"{", "}">> ELSE <<>>),
        !.dynamic_args = IF fmt # <<>> THEN <<FormatArgs(fmt)>> ELSE <<>>]

\* lib.rs:267-279: the State eval_expr starts from
InitialState(expr_str, fmt) ==
    [State_new EXCEPT
        !.setup = <<StructStmt>>,
        !.format_message = Header(expr_str) \o (IF fmt # <<>> THEN <<": ", "{", "}">> ELSE <<>>),
        !.dynamic_args = IF fmt # <<>> THEN <<FormatArgs(fmt)>> ELSE <<>>]

\* assert_internal as it would be with the fast path for false taken only
\* when there is no message
assert_internal_no_message(e, fmt) ==
    LET expr_str == printable_expr_string(Tokens(e))
    IN  IF Text(expr_str) = "true" THEN [gen |-> "true_flavor"]
        ELSE IF Text(expr_str) = "false" /\ fmt = <<>> THEN [gen |-> "panic_false"]
        ELSE eval_expr(e, InitialState(expr_str, fmt))

\* assert_internal as it would be with the parentheses left out of the text
\* it compares
assert_internal_trimmed(e, fmt) ==
    LET expr_str == printable_expr_string(Tokens(e))
        trimmed == printable_expr_string(
                       SelectSeq(Tokens(e), LAMBDA t : t \notin {<<"(">>, <<")">>}))
    IN  IF Text(trimmed) = "true" THEN [gen |-> "true_flavor"]
        ELSE IF Text(trimmed) = "false" THEN [gen |-> "panic_false"]
        ELSE eval_expr(e, InitialState(expr_str, fmt))

\* lib.rs:254-280
assert_internal(e, fmt) ==
    LET expr_str == printable_expr_string(Tokens(e))
    IN  IF Text(expr_str) = "true" THEN [gen |-> "true_flavor"]
        ELSE IF Text(expr_str) = "false" THEN [gen |-> "panic_false"]
        ELSE eval_expr(e, InitialState(expr_str, fmt))

(***************************************************************************)
(* Run time.  Values, the evaluation of a condition as written (Eval) and  *)
(* the run of the generated code (Exec).  An environment maps the names a  *)
(* condition uses (variables, what a function or a method returns, what a  *)
(* macro or another opaque node yields) to values; the evaluation of a     *)
(* call, a method call, a macro or an opaque node is recorded as an event  *)
(* of the trace, which is how often and in which order code ran.           *)
(***************************************************************************)

BoolV(b) == [ty |-> "bool", n |-> IF b THEN 1 ELSE 0]
IntV(n) == [ty |-> "int", n |-> n]
StrV(n) == [ty |-> "str", n |-> n]
ArrV(n) == [ty |-> "arr", n |-> n]      \* an array of bool: element i is bit i of n
UnitV == [ty |-> "unit", n |-> 0]
IsTrue(v) == v = BoolV(TRUE)

StrTable == <<"hello", "world">>

\* format!("{:?}", v)
Debug(v) ==
    CASE v.ty = "bool" -> IF v.n = 1 THEN <<"true">> ELSE <<"false">>
      [] v.ty = "int" -> <<to_string(v.n)>>
      [] v.ty = "str" -> <<"\"", StrTable[v.n], "\"">>
      [] v.ty = "arr" -> <<"[", to_string(v.n), "]">>
      [] OTHER -> <<"()">>

LitValue(text) ==
    CASE text = "true" -> BoolV(TRUE)
      [] text = "false" -> BoolV(FALSE)
      [] text = "0" -> IntV(0)
      [] text = "1" -> IntV(1)
      [] text = "2" -> IntV(2)
      [] text = "\"hello\"" -> StrV(1)
      [] OTHER -> StrV(2)

\* the operators as the tests implement them (tests/expr.rs:140-176 and
\* 726-793): an arithmetic or bitwise operator on a non-bool type returns
\* whether the operands are equal; - and * return the wrapped bool
ApplyBinary(op, l, r) ==
    CASE op = "==" -> BoolV(l = r)
      [] op = "!=" -> BoolV(l # r)
      [] op = "<" -> BoolV(l.n < r.n)
      [] op \in {"&&", "&"} -> BoolV(IsTrue(l) /\ IsTrue(r))
      [] op \in {"||", "|"} -> BoolV(IsTrue(l) \/ IsTrue(r))
      [] OTHER -> BoolV(l = r)

ApplyUnary(op, v) == IF op = "!" THEN BoolV(~IsTrue(v)) ELSE v

Bind(env, name, v) == (name :> v) @@ env

RECURSIVE RetKey(_)
\* the name under which the environment holds what a callee returns
RetKey(f) ==
    CASE f.kind \in {"Paren", "Group"} -> RetKey(f.expr)
      [] f.kind = "Call" -> RetKey(f.func)
      [] OTHER -> f.name

CallEvent(f) == Text(TokensToString(Tokens(f))) \o "()"

PatMatches(pat, v) == pat = Tok("_") \/ LitValue(pat[1][1]) = v

RECURSIVE Eval(_, _)
RECURSIVE EvalArgs(_, _)
RECURSIVE EvalStmts(_, _)
RECURSIVE EvalArms(_, _, _)

\* the arguments left to right: [vals, trace]
EvalArgs(args, env) ==
    IF args = <<>> THEN [vals |-> <<>>, trace |-> <<>>]
    ELSE LET a == Eval(Head(args), env)
             rest == EvalArgs(Tail(args), env)
         IN  [vals |-> <<a.val>> \o rest.vals, trace |-> a.trace \o rest.trace]

\* one statement: [env, trace, val]
EvalStmt(s, env) ==
    CASE s.kind = "Local" ->
            LET i == Eval(s.init, env)
            IN  [env |-> Bind(env, s.name, i.val), trace |-> i.trace, val |-> UnitV]
      [] s.kind = "Expr" ->
            LET v == Eval(s.expr, env)
            IN  [env |-> env, trace |-> v.trace, val |-> IF s.semi THEN UnitV ELSE v.val]
      [] s.kind = "Macro" ->
            [env |-> env, trace |-> <<s.name>>,
             val |-> IF s.semi THEN UnitV ELSE env[s.name]]
      [] OTHER -> [env |-> env, trace |-> <<>>, val |-> UnitV]

\* the statements of a block in order; val is the value of the last one
EvalStmts(stmts, env) ==
    IF stmts = <<>> THEN [env |-> env, trace |-> <<>>, val |-> UnitV]
    ELSE LET h == EvalStmt(Head(stmts), env)
             rest == EvalStmts(Tail(stmts), h.env)
         IN  IF Len(stmts) = 1 THEN h
             ELSE [env |-> rest.env, trace |-> h.trace \o rest.trace, val |-> rest.val]

\* the first arm whose pattern matches and whose guard holds
EvalArms(arms, v, env) ==
    IF arms = <<>> THEN [val |-> UnitV, trace |-> <<>>]
    ELSE LET arm == Head(arms)
             g == IF arm.guard = <<>> THEN [val |-> BoolV(TRUE), trace |-> <<>>]
                  ELSE Eval(arm.guard[1], env)
         IN  IF ~PatMatches(arm.pat, v) THEN EvalArms(Tail(arms), v, env)
             ELSE IF IsTrue(g.val)
                  THEN LET b == Eval(arm.body, env)
                       IN  [val |-> b.val, trace |-> g.trace \o b.trace]
                  ELSE LET rest == EvalArms(Tail(arms), v, env)
                       IN  [val |-> rest.val, trace |-> g.trace \o rest.trace]

\* the evaluation of an expression: [val, trace]
Eval(e, env) ==
    CASE e.kind = "Path" -> [val |-> env[e.name], trace |-> <<>>]
      [] e.kind = "Access" -> [val |-> env[e.ident], trace |-> <<>>]
      [] e.kind = "Lit" -> [val |-> LitValue(e.text), trace |-> <<>>]
      [] e.kind = "Binary" ->
            LET l == Eval(e.left, env)
                r == Eval(e.right, env)
            IN  IF e.op = "&&" /\ ~IsTrue(l.val) THEN l
                ELSE IF e.op = "||" /\ IsTrue(l.val) THEN l
                ELSE [val |-> ApplyBinary(e.op, l.val, r.val), trace |-> l.trace \o r.trace]
      [] e.kind = "Unary" ->
            LET v == Eval(e.expr, env)
            IN  [val |-> ApplyUnary(e.op, v.val), trace |-> v.trace]
      [] e.kind = "Call" ->
            LET f == Eval(e.func, env)
                a == EvalArgs(e.args, env)
            IN  [val |-> env[RetKey(e.func)],
                 trace |-> f.trace \o a.trace \o <<CallEvent(e.func)>>]
      [] e.kind = "MethodCall" ->
            LET o == Eval(e.receiver, env)
                a == EvalArgs(e.args, env)
            IN  [val |-> env[e.method], trace |-> o.trace \o a.trace \o <<"." \o e.method>>]
      [] e.kind = "Index" ->
            LET b == Eval(e.expr, env)
                i == Eval(e.index, env)
            IN  [val |-> BoolV((b.val.n \div (2 ^ i.val.n)) % 2 = 1),
                 trace |-> b.trace \o i.trace]
      [] e.kind \in {"Paren", "Group", "Cast"} -> Eval(e.expr, env)
      [] e.kind \in {"Block", "Const", "Unsafe"} ->
            LET b == EvalStmts(e.stmts, env)
            IN  [val |-> b.val, trace |-> b.trace]
      [] e.kind = "If" ->
            LET c == Eval(e.cond, env)
                t == EvalStmts(e.then_branch, env)
                f == IF e.else_branch = <<>> THEN [val |-> UnitV, trace |-> <<>>]
                     ELSE Eval(e.else_branch[1], env)
            IN  IF IsTrue(c.val) THEN [val |-> t.val, trace |-> c.trace \o t.trace]
                ELSE [val |-> f.val, trace |-> c.trace \o f.trace]
      [] e.kind = "Match" ->
            LET m == Eval(e.expr, env)
                a == EvalArms(e.arms, m.val, env)
            IN  [val |-> a.val, trace |-> m.trace \o a.trace]
      [] OTHER -> [val |-> env[e.name], trace |-> <<e.name>>]

(***************************************************************************)
(* The run of the generated code                                           *)
(***************************************************************************)

IsBrace(c) == c \in {"{", "}"}

\* The format parser reads a template left to right and takes braces two
\* at a time: "{" "}" is a placeholder, "{" "{" and "}" "}" are one brace.
\* So in a run of braces the 1st, 3rd, ... open a pair.
RunStart(t, i) ==
    CHOOSE j \in 1..i :
        /\ \A k \in j..i : IsBrace(t[k])
        /\ j = 1 \/ ~IsBrace(t[j - 1])

OpensPair(t, i) == IsBrace(t[i]) /\ (i - RunStart(t, i)) % 2 = 0

IsPlaceholder(t, i) ==
    OpensPair(t, i) /\ i < Len(t) /\ t[i] = "{" /\ t[i + 1] = "}"

Placeholders(t) == {i \in 1..Len(t) : IsPlaceholder(t, i)}

\* a pair that is neither a placeholder nor a doubled brace
BadPair(t, i) ==
    OpensPair(t, i) /\ (i = Len(t) \/ ~(t[i + 1] = t[i] \/ (t[i] = "{" /\ t[i + 1] = "}")))

\* std::fmt on a template and the strings of its arguments.  [ok, text]; ok
\* is FALSE when the placeholders and the arguments do not pair up, which
\* the compiler refuses.
Render(template, args) ==
    LET ok == /\ \A i \in 1..Len(template) : ~BadPair(template, i)
              /\ Cardinality(Placeholders(template)) = Len(args)
        piece(i) ==
            IF ~IsBrace(template[i]) THEN <<template[i]>>
            ELSE IF ~OpensPair(template, i) THEN <<>>
            ELSE IF IsPlaceholder(template, i)
                 THEN args[Cardinality({j \in Placeholders(template) : j < i}) + 1]
                 ELSE <<template[i]>>
    IN  [ok |-> ok,
         text |-> IF ok THEN Flatten([i \in 1..Len(template) |-> piece(i)]) ELSE <<>>]

\* format_args!(#format) once its arguments are evaluated (a)
FormatUserWith(fmt, a) ==
    [text |-> Render(fmt.lit, [i \in 1..Len(a.vals) |-> Debug(a.vals[i])]).text,
     trace |-> a.trace,
     ok |-> Render(fmt.lit, [i \in 1..Len(a.vals) |-> <<>>]).ok]

\* format_args!(#format): the user's message.  [text, trace, ok]
FormatUser(fmt, env) == FormatUserWith(fmt, EvalArgs(fmt.args, env))

\* one argument of the panic: the string of a captured variable, or the
\* user's message
PanicArg(d, env, strs) ==
    IF d.arg = "var" THEN [text |-> strs[d.ident], trace |-> <<>>, ok |-> TRUE]
    ELSE FormatUser(d.tokens[1], env)

PanicCons(h, rest) ==
    [texts |-> <<h.text>> \o rest.texts, trace |-> h.trace \o rest.trace,
     ok |-> h.ok /\ rest.ok]

RECURSIVE PanicArgs(_, _, _)
\* the arguments of the panic, evaluated left to right: [texts, trace, ok]
PanicArgs(dynamic_args, env, strs) ==
    IF dynamic_args = <<>> THEN [texts |-> <<>>, trace |-> <<>>, ok |-> TRUE]
    ELSE PanicCons(PanicArg(Head(dynamic_args), env, strs),
                   PanicArgs(Tail(dynamic_args), env, strs))

\* r, a record with a trace, after the events of prefix
WithTrace(prefix, r) == [r EXCEPT !.trace = prefix \o @]

\* let ident = __OneAssertWrapper(expr);
ExecLetWrap(st, env, strs, v) ==
    [env |-> Bind(env, st.ident, v.val), strs |-> strs, trace |-> v.trace]

\* let ident = format!("{:?}", arg);
ExecLetStr(st, env, strs, v) ==
    [env |-> env, strs |-> Bind(strs, st.ident, Debug(v.val)), trace |-> v.trace]

\* a statement of the user's block
ExecUser(strs, u) == [env |-> u.env, strs |-> strs, trace |-> u.trace]

\* one setup statement: [env, strs, trace]
ExecSetupStmt(st, env, strs) ==
    CASE st.stmt = "let_wrap" -> ExecLetWrap(st, env, strs, Eval(st.expr, env))
      [] st.stmt = "let_str" -> ExecLetStr(st, env, strs, Eval(st.arg, env))
      [] st.stmt = "user" -> ExecUser(strs, EvalStmt(st.s, env))
      [] OTHER -> [env |-> env, strs |-> strs, trace |-> <<>>]

RECURSIVE ExecSetup(_, _, _)

ExecSetupRest(rest, h) == WithTrace(h.trace, ExecSetup(rest, h.env, h.strs))

\* the setup statements in order: [env, strs, trace]
ExecSetup(setup, env, strs) ==
    IF setup = <<>> THEN [env |-> env, strs |-> strs, trace |-> <<>>]
    ELSE ExecSetupRest(Tail(setup), ExecSetupStmt(Head(setup), env, strs))

Outcome(outcome, trace, message) ==
    [outcome |-> outcome, trace |-> trace, message |-> message]

RECURSIVE Exec(_, _, _)
RECURSIVE ExecArms(_, _, _, _)

\* an arm whose pattern matched, its guard (g) evaluated
ExecGuarded(arms, v, env, strs, g) ==
    WithTrace(g.trace, IF IsTrue(g.val) THEN Exec(Head(arms).body, env, strs)
                       ELSE ExecArms(Tail(arms), v, env, strs))

\* the arms of a generated match: the first whose pattern matches and whose
\* guard holds
ExecArms(arms, v, env, strs) ==
    IF arms = <<>> THEN Outcome("type_error", <<>>, <<>>)
    ELSE IF ~PatMatches(Head(arms).pat, v) THEN ExecArms(Tail(arms), v, env, strs)
    ELSE ExecGuarded(arms, v, env, strs,
                     IF Head(arms).guard = <<>> THEN [val |-> BoolV(TRUE), trace |-> <<>>]
                     ELSE Eval(Head(arms).guard[1], env))

\* if #assert_condition {} else { panic!(#format_message, #dynamic_args) }
\* after the setup (s), with the condition (c) and the arguments (a)
ExecCheck(g, s, c, a) ==
    IF c.val.ty # "bool" \/ ~a.ok
       \/ ~Render(g.format_message, [i \in 1..Len(g.dynamic_args) |-> <<>>]).ok
    THEN Outcome("type_error", <<>>, <<>>)
    ELSE IF IsTrue(c.val) THEN Outcome("pass", s.trace \o c.trace, <<>>)
    ELSE Outcome("panic", s.trace \o c.trace \o a.trace,
                 Render(g.format_message, a.texts).text)

\* if #condition #then_branch else #else_branches
ExecBranch(g, s, c) ==
    WithTrace(s.trace \o c.trace,
              IF IsTrue(c.val) THEN Exec(g.then_branch, s.env, s.strs)
              ELSE Exec(g.else_branches, s.env, s.strs))

\* match #match_expr { #arms }
ExecMatch(g, s, m) ==
    WithTrace(s.trace \o m.trace, ExecArms(g.arms, m.val, s.env, s.strs))

\* if #original_tokens {}
ExecIfBlock(s, c) ==
    IF c.val.ty # "bool" THEN Outcome("type_error", <<>>, <<>>)
    ELSE Outcome("pass", s.trace \o c.trace, <<>>)

\* a fragment after its setup (s)
ExecAfterSetup(g, s) ==
    CASE g.gen = "check" ->
            ExecCheck(g, s, Eval(g.assert_condition, s.env),
                      PanicArgs(g.dynamic_args, s.env, s.strs))
      [] g.gen \in {"if", "else_if"} -> ExecBranch(g, s, Eval(g.condition, s.env))
      [] g.gen = "match" -> ExecMatch(g, s, Eval(g.match_expr, s.env))
      [] OTHER -> ExecIfBlock(s, Eval(g.original_tokens, s.env))

\* the run of a generated fragment: [outcome, trace, message], the outcome
\* being "pass", "panic" (with the message), or "type_error" when the
\* compiler refuses the fragment (a predicate that is no bool, an if whose
\* branches differ in type, a template and arguments that do not pair up)
Exec(g, env0, strs0) ==
    CASE g.gen \in {"check", "if", "else_if", "match", "if_block"} ->
            ExecAfterSetup(g, ExecSetup(g.setup, env0, strs0))
      [] g.gen = "else_block" -> Exec(g.body, env0, strs0)
      [] g.gen = "raw" -> Outcome("type_error", <<>>, <<>>)
      [] g.gen = "panic_false" ->
            Outcome("panic", <<>>, <<"surprisingly, ", Backtick, "false", Backtick,
                                     " did not evaluate to true">>)
      [] OTHER -> Outcome("flavor", <<>>, <<>>)

(***************************************************************************)
(* The conditions, the format messages and the environments explored       *)
(***************************************************************************)

MaxArgs == 11      \* the longest argument list (11: the first two-digit index)

p == Path("p")
q == Path("q")
a == Path("a")
b == Path("b")
f0 == Call(Path("f"), <<>>)          \* f()
g0 == Call(Path("g"), <<>>)          \* g()
k0 == Call(Path("k"), <<>>)          \* k(), which returns a function

BoolLeaves == {p, q, Lit("true"), Lit("false"), f0, g0}
IntLeaves == {a, b, Lit("1"), Lit("2")}

\* brace-delimited token streams
LoopTok == Tok("loop") \o Tok("{") \o Tok("break") \o Tok("p") \o Tok("}")
TryBlockTok == Tok("try") \o Tok("{") \o Tok("p") \o Tok("}")
BraceMacroTok == Tok("m") \o Tok("!") \o Tok("{") \o Tok("p") \o Tok("}")
StructTok == Tok("S") \o Tok("{") \o Tok("x") \o Tok(":") \o Tok("1") \o Tok("}")

\* one node of every kind eval_expr leaves alone
PassThrough ==
    {Opaque("Array", Tok("[") \o Tok("p") \o Tok("]"), "array"),
     Opaque("Await", Tok("fut") \o Tok(".") \o Tok("await"), "fut"),
     Cast(Lit("false"), Tok("bool")), Cast(p, Tok("bool")), Cast(f0, Tok("bool")),
     Opaque("Closure", Tok("|") \o Tok("|") \o Tok("p"), "closure"),
     Opaque("Field", Tok("o") \o Tok(".") \o Tok("flag"), "flag"),
     Opaque("Infer", Tok("_"), "infer"),
     Opaque("Loop", LoopTok, "loop"),
     Opaque("Macro", Tok("m") \o Tok("!") \o Tok("(") \o Tok("p") \o Tok(")"), "m"),
     Opaque("Range", Tok("a") \o Tok("..") \o Tok("b"), "range"),
     Opaque("Reference", Tok("&") \o Tok("p"), "reference"),
     Opaque("Repeat", Tok("[") \o Tok("p") \o Tok(";") \o Tok("2") \o Tok("]"), "repeat"),
     Opaque("Try", Tok("r") \o Tok("?"), "r"),
     Opaque("Tuple", Tok("(") \o Tok("p") \o Tok(",") \o Tok("q") \o Tok(")"), "tuple"),
     Opaque("Verbatim", Tok("verbatim"), "verbatim"),
     Opaque("TryBlock", TryBlockTok, "tryblock"),
     Opaque("Yield", Tok("yield") \o Tok("p"), "yield"),
     p, Lit("1"), f0, g0, Call(k0, <<>>),
     If(p, <<ExprStmt(q, FALSE)>>, <<>>)}

\* one node of every kind eval_expr rejects
Rejected ==
    {Opaque("Assign", Tok("a") \o Tok("=") \o Tok("b"), "assign"),
     Opaque("Async", Tok("async") \o Tok("{") \o Tok("p") \o Tok("}"), "async"),
     Opaque("Break", Tok("break"), "break"),
     Opaque("Continue", Tok("continue"), "continue"),
     Opaque("ForLoop", Tok("for") \o Tok("x") \o Tok("in") \o Tok("v") \o Tok("{") \o Tok("}"),
            "for"),
     Opaque("Let", Tok("let") \o Tok("x") \o Tok("=") \o Tok("a"), "let"),
     Opaque("Return", Tok("return") \o Tok("p"), "return"),
     Opaque("Struct", StructTok, "struct"),
     Opaque("While", Tok("while") \o Tok("p") \o Tok("{") \o Tok("}"), "while")}

Binaries ==
    {Binary(l, op, r) : l \in IntLeaves, op \in {"==", "<", "+"}, r \in IntLeaves}
    \cup {Binary(l, op, r) : l \in BoolLeaves, op \in {"==", "&&", "||", "&"}, r \in BoolLeaves}
    \cup {Binary(Binary(p, "&&", f0), "||", g0), Binary(Paren(Binary(a, "+", b)), "==", Lit("2")),
          [Binary(a, "==", b) EXCEPT !.attrs = Tok("#") \o Tok("[") \o Tok("x") \o Tok("]")]}

Unaries ==
    {Unary(op, e) : op \in {"!", "-", "*"}, e \in BoolLeaves}
    \cup {Unary("!", Binary(a, "==", b)), Unary("!", Paren(Unary("!", p)))}

\* argument lists: every list of one or two leaves, and one list of every
\* length up to MaxArgs
ArgLeaves == {a, Lit("1"), f0}
ArgPattern == <<a, Lit("1"), b, Lit("2"), f0>>
LongArgs(n) == [i \in 1..n |-> IF i <= Len(ArgPattern) THEN ArgPattern[i] ELSE Lit("0")]
ArgLists ==
    {<<x>> : x \in ArgLeaves} \cup {<<x, y>> : x \in ArgLeaves, y \in ArgLeaves}
    \cup {LongArgs(n) : n \in 3..MaxArgs}

Calls == {Call(c, args) : c \in {Path("h"), k0}, args \in ArgLists}

Turbofish == Tok("::") \o Tok("<") \o Tok("T") \o Tok(">")

MethodCalls ==
    {MethodCall(r, m, t, args) :
        r \in {Path("s"), Lit("\"hello\""), g0}, m \in {"contains"}, t \in {<<>>, Turbofish},
        args \in {<<>>, <<Lit("\"world\"")>>, <<a, f0>>, LongArgs(MaxArgs - 1), LongArgs(MaxArgs)}}

Indexes ==
    {Index(base, i) :
        base \in {Path("arr"), Call(Path("get_arr"), <<>>)},
        i \in {Path("i"), Lit("0"), Lit("1"), Call(Path("idx"), <<>>),
               Unary("-", Lit("1")), Paren(Lit("1"))}}

\* conditions put inside blocks, branches, arms and parentheses
Inner ==
    {p, Lit("true"), Lit("false"), Binary(a, "==", b), Binary(q, "||", f0),
     Unary("!", q), Call(Path("h"), <<a, f0>>),
     Opaque("Break", Tok("break"), "break")}

Stmts == {<<>>, <<Local("a", Lit("1"))>>, <<ExprStmt(g0, TRUE), Local("b", a)>>}

\* blocks without a trailing expression
NoTail ==
    {<<>>, <<Local("a", Lit("1"))>>, <<ExprStmt(p, TRUE)>>,
     <<MacroStmt(BraceMacroTok, "m", FALSE)>>,
     <<Local("a", Lit("1")), MacroStmt(BraceMacroTok, "m", FALSE)>>,
     <<MacroStmt(BraceMacroTok, "m", TRUE)>>}

Bodies == {st \o <<ExprStmt(e, FALSE)>> : st \in Stmts, e \in Inner} \cup NoTail

Blocks ==
    {Block(body) : body \in Bodies} \cup {Const(body) : body \in Bodies}
    \cup {Unsafe(body) : body \in Bodies}
    \cup {Block(<<Local("a", Lit("1")), ExprStmt(Block(<<ExprStmt(e, FALSE)>>), FALSE)>>) :
            e \in Inner}

Wrapped ==
    {Paren(e) : e \in Inner \cup {Paren(Lit("false")), Block(<<ExprStmt(q, FALSE)>>)}}
    \cup {Group(e) : e \in Inner}

Tails == {<<ExprStmt(e, FALSE)>> : e \in Inner} \cup {<<Local("b", Lit("1")), ExprStmt(Binary(a, "==", b), FALSE)>>}

Ifs ==
    {If(c, t, <<Block(e)>>) : c \in {p, f0, Binary(a, "==", b)}, t \in Tails, e \in Tails}
    \cup {If(p, t, <<If(f0, e, <<Block(t)>>)>>) : t \in Tails, e \in Tails}
    \cup {If(p, <<ExprStmt(q, FALSE)>>, <<If(f0, <<ExprStmt(q, FALSE)>>, <<>>)>>),
          If(p, <<ExprStmt(q, FALSE)>>, <<Opaque("While", Tok("while"), "while")>>),
          If(p, <<MacroStmt(BraceMacroTok, "m", FALSE)>>, <<Block(<<ExprStmt(q, FALSE)>>)>>)}

Guard == Binary(b, "<", Lit("2"))

Matches ==
    {Match(m, <<Arm(Tok("1"), <<>>, x), Arm(Tok("_"), <<Guard>>, y), Arm(Tok("_"), <<>>, z)>>) :
        m \in {a, Call(Path("n"), <<>>)}, x \in Inner, y \in {p, Binary(a, "==", b)},
        z \in {Lit("false"), Binary(q, "||", f0), Opaque("Break", Tok("break"), "break")}}

\* unsafe blocks around and inside branches, and a rejected kind below a block
Nested ==
    {Unsafe(<<Local("a", Lit("1")),
              ExprStmt(If(f0, <<ExprStmt(q, FALSE)>>,
                          <<Block(<<ExprStmt(Binary(a, "==", b), FALSE)>>)>>), FALSE)>>),
     Unsafe(<<ExprStmt(Match(a, <<Arm(Tok("1"), <<>>, p),
                                  Arm(Tok("_"), <<>>, Binary(q, "==", f0))>>), FALSE)>>),
     If(p, <<ExprStmt(Unsafe(<<ExprStmt(q, FALSE)>>), FALSE)>>,
        <<Block(<<ExprStmt(Unary("-", g0), FALSE)>>)>>),
     Block(<<ExprStmt(If(p, <<ExprStmt(q, FALSE)>>,
                         <<Block(<<ExprStmt(Opaque("Return", Tok("return") \o Tok("p"),
                                                   "return"), FALSE)>>)>>), FALSE)>>)}

Conditions ==
    Binaries \cup Unaries \cup Calls \cup MethodCalls \cup Indexes \cup PassThrough
    \cup Rejected \cup Blocks \cup Wrapped \cup Ifs \cup Matches \cup Nested
    \cup {Lit("true"), Lit("false")}

\* Args.format: nothing, or the tokens of a message and its arguments
Formats == {<<>>, <<[lit |-> <<"a=", "{", "}">>, args |-> <<a>>]>>}

\* the environments: x, y, z decide every value
EnvOf(x, y, z) ==
    [n \in {"p", "q", "a", "b", "i", "arr", "s", "f", "g", "h", "k", "n", "idx", "get_arr",
            "contains", "fut", "flag", "loop", "m", "r", "verbatim", "tryblock", "yield",
            "array", "closure", "infer", "range", "reference", "repeat", "tuple"} |->
        CASE n \in {"p", "g", "contains", "fut", "flag", "loop", "m"} -> BoolV(x)
          [] n \in {"q", "h", "r", "verbatim", "tryblock", "yield"} -> BoolV(y)
          [] n \in {"f", "k"} -> BoolV(z)
          [] n \in {"a", "n"} -> IntV(IF z THEN 1 ELSE 2)
          [] n = "b" -> IntV(IF y THEN 1 ELSE 2)
          [] n \in {"i", "idx"} -> IntV(IF x THEN 0 ELSE 1)
          [] n \in {"arr", "get_arr"} -> ArrV(1)
          [] n = "s" -> StrV(1)
          [] OTHER -> UnitV]

Envs == {EnvOf(x, y, z) : x \in BOOLEAN, y \in BOOLEAN, z \in BOOLEAN}

NoRun == [env |-> <<>>, outcome |-> "none", trace |-> <<>>, message |-> <<>>]

(***************************************************************************)
(* The state machine: the macro is expanded on its arguments, and the code *)
(* it generated is run in an environment                                   *)
(***************************************************************************)

Init ==
    /\ pc = "args"
    /\ expr \in Conditions
    /\ format \in Formats
    /\ input = InputOf(expr, format)
    /\ output = [gen |-> "none"]
    /\ run = NoRun

\* fn assert, after parsing: the expansion, or the error
Expand ==
    /\ pc = "args"
    /\ output' = assert_internal(expr, format)
    /\ pc' = IF IsErr(output') THEN "rejected" ELSE "expanded"
    /\ UNCHANGED <<input, expr, format, run>>

\* the generated code runs where the macro was invoked
Execute ==
    /\ pc = "expanded"
    /\ \E env \in Envs :
          run' = [env |-> env] @@ Exec(output, env, <<>>)
    /\ pc' = "done"
    /\ UNCHANGED <<input, expr, format, output>>

Next == Expand \/ Execute

Spec == Init /\ [][Next]_vars

\* the macro is invoked again on the same tokens, as by a second copy of the
\* call in the same compilation: nothing of the first expansion is given
\* to the second, whose code replaces the first's in output
Again ==
    /\ pc = "done"
    /\ pc' = "args"
    /\ UNCHANGED <<input, expr, format, output, run>>

InitAgain ==
    /\ Init
    /\ expr \in Calls \cup Nested \cup {Binary(a, "==", b)}

NextAgain == Expand \/ Execute \/ Again

SpecAgain == InitAgain /\ [][NextAgain]_vars

\* conditions with code before, around and inside an unsafe block
UnsafeInputs ==
    Nested
    \cup {Unsafe(<<ExprStmt(q, FALSE)>>),
          Unsafe(<<Local("b", Lit("1")), ExprStmt(Binary(a, "==", b), FALSE)>>),
          Block(<<ExprStmt(g0, TRUE), ExprStmt(Unsafe(<<ExprStmt(q, FALSE)>>), FALSE)>>),
          Block(<<Local("b", Lit("1")),
                  ExprStmt(Unsafe(<<ExprStmt(Binary(a, "==", b), FALSE)>>), FALSE)>>)}

InitUnsafe ==
    /\ pc = "args"
    /\ expr \in UnsafeInputs
    /\ format \in Formats
    /\ input = InputOf(expr, format)
    /\ output = [gen |-> "none"]
    /\ run = NoRun

SpecUnsafe == InitUnsafe /\ [][Next]_vars

\* Args.expr before the input is parsed
Unparsed == Opaque("Verbatim", <<>>, "verbatim")

\* what the macro may be invoked on: a lead (nothing, an operator, an
\* expression, an expression and an operator) and what follows it
ParseLeads ==
    {<<>>, <<PlusItem>>, <<ExprItem(a), PlusItem>>, <<ExprItem(a), PlusItem, ExprItem(b)>>}
    \cup {<<ExprItem(e)>> : e \in Inner}

ParseTails ==
    {<<>>, <<CommaItem>>} \cup {t \o <<FormatItem(fmt[1])>> : t \in {<<>>, <<CommaItem>>},
                                                             fmt \in Formats \ {<<>>}}

ParseInputs == {l \o t : l \in ParseLeads, t \in ParseTails}

InitParse ==
    /\ pc = "input"
    /\ input \in ParseInputs
    /\ expr = Unparsed
    /\ format = <<>>
    /\ output = [gen |-> "none"]
    /\ run = NoRun

\* syn::parse_macro_input!(input as Args): the arguments, or the error
Parse ==
    /\ pc = "input"
    /\ LET r == Args_parse(input)
       IN  IF IsErr(r)
           THEN /\ pc' = "rejected"
                /\ output' = r
                /\ UNCHANGED <<expr, format>>
           ELSE /\ pc' = "args"
                /\ expr' = r.expr
                /\ format' = r.format
                /\ UNCHANGED output
    /\ UNCHANGED <<input, run>>

NextParse == Parse \/ Expand \/ Execute

SpecParse == InitParse /\ [][NextParse]_vars

\* conditions with braces in the text of an if condition, of a guard and of
\* an arm body
BlockOf(e) == Block(<<ExprStmt(e, FALSE)>>)

Braced ==
    {If(BlockOf(c), <<ExprStmt(t, FALSE)>>,
        <<If(f0, <<ExprStmt(e, FALSE)>>, <<BlockOf(Binary(a, "==", b))>>)>>) :
        c \in {p, Binary(a, "<", b)}, t \in {q, Binary(a, "==", b)}, e \in {q, Lit("false")}}
    \cup {If(p, <<ExprStmt(q, FALSE)>>,
             <<If(BlockOf(f0), <<ExprStmt(e, FALSE)>>, <<BlockOf(Binary(a, "==", b))>>)>>) :
             e \in {q, Lit("false")}}
    \cup {Match(m, <<Arm(Tok("1"), <<BlockOf(Binary(b, "<", Lit("2")))>>, BlockOf(x)),
                     Arm(Tok("_"), <<>>, BlockOf(y))>>) :
             m \in {a, BlockOf(a)}, x \in {p, Binary(a, "==", b)}, y \in {q, Lit("false")}}

InitBraced ==
    /\ pc = "args"
    /\ expr \in Conditions \cup Braced
    /\ format \in Formats
    /\ input = InputOf(expr, format)
    /\ output = [gen |-> "none"]
    /\ run = NoRun

SpecBraced == InitBraced /\ [][Next]_vars

\* a message whose argument is a call: its evaluation is an event
MessageFormats ==
    (Formats \ {<<>>}) \cup {<<[lit |-> <<"r=", "{", "}">>, args |-> <<Call(Path("r"), <<>>)>>]>>}

\* the macro invoked with a message
InitMsg ==
    /\ pc = "args"
    /\ expr \in Conditions
    /\ format \in MessageFormats
    /\ input = InputOf(expr, format)
    /\ output = [gen |-> "none"]
    /\ run = NoRun

SpecMsg == InitMsg /\ [][Next]_vars

TypeOK ==
    /\ pc \in {"input", "args", "expanded", "rejected", "done"}
    /\ run.outcome \in {"none", "pass", "panic", "type_error", "flavor"}

(***************************************************************************)
(* Properties.  What they read: expr and format (the arguments), output    *)
(* (the expansion) once pc is "expanded" or "done", and run (the run of    *)
(* the expansion in run.env) once pc is "done".                            *)
(***************************************************************************)

RECURSIVE Core(_)
\* the expression inside parentheses and invisible groups, which is the
\* expression eval_expr classifies
Core(e) == IF e.kind \in {"Paren", "Group"} THEN Core(e.expr) ELSE e

Expanded == pc \in {"expanded", "done"}
Failed == pc = "done" /\ run.outcome = "panic"
Passed == pc = "done" /\ run.outcome = "pass"

\* the text of the template before the variable lines
TemplateHeader ==
    "assertion '" \o Text(printable_expr_string(Tokens(expr))) \o "' failed"
    \o (IF format = <<>> THEN "" ELSE ": {}")

\* the text of the message before the variable lines
MessageHeader ==
    "assertion '" \o Text(TokensToString(Tokens(expr))) \o "' failed"
    \o (IF format = <<>> THEN "" ELSE ": a=" \o Text(Debug(run.env["a"])))

\* the debug text of the value of x where the assertion ran
DebugOf(x) == Text(Debug(Eval(x, run.env).val))

\* the statements of a setup that are of one kind
SetupOf(setup, stmt) == SelectSeq(setup, LAMBDA st : st.stmt = stmt)

\* acc stands for the operand x: x itself when x is a path, and else the one
\* binding of the setup that evaluates x
Captures(acc, x, setup) ==
    IF x.kind = "Path" THEN acc = x
    ELSE /\ acc.kind = "Access"
         /\ Cardinality({i \in 1..Len(setup) :
                            setup[i].stmt = "let_wrap" /\ setup[i].ident = acc.ident}) = 1
         /\ \E i \in 1..Len(setup) : setup[i] = WrapStmt(acc.ident, x)

\* the text of the variable lines of a message: names right-aligned to
\* width, each followed by the debug text of a value
ReportLines(names, values, width) ==
    Text(Flatten([i \in 1..Len(names) |->
            <<"\n    ">> \o PadLeft(<<names[i]>>, width) \o <<": ", values[i]>>]))

\* the same lines in the template, a placeholder for each value
TemplateLines(names, width) == ReportLines(names, [i \in 1..Len(names) |-> "{}"], width)

\* C1: for a binary condition a <op> b, whatever the operator, the template
\* is the header, one left line and one right line; the predicate is
\* <captured a> <op> <captured b>; and the message of a failure carries the
\* debug text of a on the left line and of b on the right line.
C1_BinaryLeftRight ==
    (Expanded /\ Core(expr).kind = "Binary") =>
        LET e == Core(expr)
        IN  /\ output.gen = "check"
            /\ Text(output.format_message)
                 = TemplateHeader \o TemplateLines(<<"left", "right">>, 5)
            /\ output.assert_condition.kind = "Binary"
            /\ output.assert_condition.op = e.op
            /\ output.assert_condition.attrs = e.attrs
            /\ Captures(output.assert_condition.left, e.left, output.setup)
            /\ Captures(output.assert_condition.right, e.right, output.setup)
            /\ Failed =>
                 Text(run.message)
                   = MessageHeader \o ReportLines(<<"left", "right">>,
                                         <<DebugOf(e.left), DebugOf(e.right)>>, 5)

\* a binary condition with an arithmetic operator and a non-path operand
\* has failed
C1_Witness ==
    /\ Failed
    /\ expr.kind = "Binary"
    /\ expr.op = "+"
    /\ expr.left.kind = "Lit"
    /\ format # <<>>

\* the operands eval_expr hands to add_var, in the order of the calls
Captured(e) ==
    CASE e.kind = "Binary" -> <<e.left, e.right>>
      [] e.kind = "Call" -> e.args
      [] e.kind = "MethodCall" -> <<e.receiver>> \o e.args
      [] e.kind = "Index" -> IF e.index.kind = "Lit" THEN <<>> ELSE <<e.index>>
      [] e.kind = "Unary" -> <<e.expr>>
      [] e.kind = "If" /\ e.else_branch # <<>> -> <<e.cond>>
      [] e.kind = "Match" -> <<e.expr>>
      [] OTHER -> <<>>

\* what stands for those operands in the generated code
Operands(g) ==
    CASE g.gen = "check" -> Captured(g.assert_condition)
      [] g.gen = "if" -> <<g.condition>>
      [] g.gen = "match" -> <<g.match_expr>>
      [] OTHER -> <<>>

RECURSIVE Classified(_)
\* the expression eval_expr ends up classifying: inside parentheses and
\* groups, and the trailing expression of a block
Classified(e) ==
    CASE e.kind \in {"Paren", "Group"} -> Classified(e.expr)
      [] e.kind \in {"Block", "Const", "Unsafe"} /\ HasTailExpr(e.stmts) ->
            Classified(e.stmts[Len(e.stmts)].expr)
      [] OTHER -> e

Distinct(s) == \A i, j \in 1..Len(s) : s[i] = s[j] => i = j

\* what the predicate evaluates besides its captured operands
OwnEvents(e) ==
    CASE e.kind = "Call" -> Eval(e.func, run.env).trace \o <<CallEvent(e.func)>>
      [] e.kind = "MethodCall" -> <<"." \o e.method>>
      [] e.kind = "Index" -> Eval(e.expr, run.env).trace
      [] OTHER -> <<>>

\* the events of evaluating each captured operand once, in order
CapturedEvents(e) ==
    Flatten([i \in 1..Len(Captured(e)) |-> Eval(Captured(e)[i], run.env).trace])

\* in the generated code, every captured operand that is no path is
\* evaluated by exactly one let of the setup, and the debug string and the
\* predicate refer to the binding
C2_Static ==
    (Expanded /\ ~IsErr(output) /\ Captured(Classified(expr)) # <<>>) =>
        LET cap == Captured(Classified(expr))
            ops == Operands(output)
            wraps == SetupOf(output.setup, "let_wrap")
            strs == SetupOf(output.setup, "let_str")
        IN  /\ Len(ops) = Len(cap)
            /\ Len(strs) = Len(cap)
            /\ [i \in 1..Len(wraps) |-> wraps[i].expr]
                 = SelectSeq(cap, LAMBDA x : x.kind # "Path")
            /\ Distinct([i \in 1..Len(wraps) |-> wraps[i].ident])
            /\ Distinct([i \in 1..Len(strs) |-> strs[i].ident])
            /\ \A i \in 1..Len(cap) :
                  /\ Captures(ops[i], cap[i], output.setup)
                  /\ strs[i].arg = ops[i]

\* in a run that passes or fails, the captured operands are evaluated once
\* each, in order, before anything else; a check evaluates nothing more
\* than its predicate's own call
C2_Dynamic ==
    (pc = "done" /\ run.outcome \in {"pass", "panic"} /\ Captured(Core(expr)) # <<>>) =>
        LET pre == CapturedEvents(Core(expr))
        IN  IF output.gen = "check"
            THEN run.trace = pre \o OwnEvents(Core(expr))
            ELSE /\ Len(run.trace) >= Len(pre)
                 /\ SubSeq(run.trace, 1, Len(pre)) = pre

\* C2: every operand captured by add_var (binary operands, arguments,
\* receiver, non-literal index, unary operand, if condition, match
\* scrutinee) is evaluated exactly once by the generated code, in a let of
\* the setup when it is no path, and the debug string and the predicate use
\* the binding; so its side effects happen once, pass or fail.
C2_SingleEvaluation == C2_Static /\ C2_Dynamic

\* f() == g() has failed, and each call ran once
C2_Witness ==
    /\ Failed
    /\ expr.kind = "Binary"
    /\ expr.left = f0
    /\ expr.right = g0
    /\ run.trace = <<"f()", "g()">>

Events(trace) == {trace[i] : i \in 1..Len(trace)}

\* C3: when the condition evaluates to true the generated code passes and
\* evaluates exactly what evaluating the condition evaluates; and for
\* a && b with a false, a || b with a true, b is not evaluated.
C3_SameSemanticsWhenTrue ==
    (pc = "done" /\ run.outcome \in {"pass", "panic"}) =>
        LET original == Eval(expr, run.env)
            e == Core(expr)
        IN  /\ IsTrue(original.val) =>
                 /\ run.outcome = "pass"
                 /\ Events(run.trace) = Events(original.trace)
            /\ (/\ e.kind = "Binary"
                /\ \/ e.op = "&&" /\ ~IsTrue(Eval(e.left, run.env).val)
                   \/ e.op = "||" /\ IsTrue(Eval(e.left, run.env).val)) =>
                 Events(run.trace) \subseteq Events(Eval(e.left, run.env).trace)

\* C4: when expansion succeeds and the condition is not the literal true, a
\* run in which the condition evaluates to false does not pass: it panics.
C4_FalseNeverPasses ==
    (pc = "done" /\ run.outcome \in {"pass", "panic"}) =>
        (Eval(expr, run.env).val = BoolV(FALSE) => run.outcome = "panic")

\* the number of decimal digits of k
DecimalDigits(k) == IF k < 10 THEN 1 ELSE IF k < 100 THEN 2 ELSE 3

\* the name of the line of argument i when the indexes are w wide
ArgName(i, w) == "arg " \o Text(Spaces(w - DecimalDigits(i))) \o to_string(i)

ArgNames(n) == [i \in 1..n |-> ArgName(i - 1, DecimalDigits(n - 1))]

\* C5: for a call with N >= 1 arguments the message has exactly the lines
\* arg 0 .. arg N-1 in argument order, each with the debug text of its
\* argument, the indexes right-aligned to the number of digits of N-1, and
\* no line for the callee, which the predicate calls as written.
C5_CallArgLines ==
    (Expanded /\ Core(expr).kind = "Call" /\ Core(expr).args # <<>>) =>
        LET e == Core(expr)
            n == Len(e.args)
        IN  /\ output.gen = "check"
            /\ Text(output.format_message) = TemplateHeader \o TemplateLines(ArgNames(n), 0)
            /\ output.assert_condition.kind = "Call"
            /\ output.assert_condition.func = e.func
            /\ Len(output.assert_condition.args) = n
            /\ \A i \in 1..n :
                  Captures(output.assert_condition.args[i], e.args[i], output.setup)
            /\ Failed =>
                 Text(run.message)
                   = MessageHeader \o ReportLines(ArgNames(n),
                                         [i \in 1..n |-> DebugOf(e.args[i])], 0)

\* a call with the most arguments has failed: ten lines of one digit padded
\* to two, and lines of two digits
C5_Witness ==
    /\ Failed
    /\ expr.kind = "Call"
    /\ Len(expr.args) = MaxArgs
    /\ Len(SetupOf(output.setup, "let_str")) = MaxArgs

\* the kinds eval_expr leaves alone
PassesThrough(e) ==
    \/ e.kind \in PassKinds
    \/ e.kind = "Call" /\ e.args = <<>>
    \/ e.kind = "If" /\ e.else_branch = <<>>

\* C6: for a node of a pass-through kind the predicate is the expression as
\* written, the setup captures nothing, the template has no variable line
\* and no argument but the user's, and the message of a failure is the
\* header.
C6_PassThroughUnchanged ==
    (Expanded /\ output.gen \notin {"true_flavor", "panic_false"}
     /\ PassesThrough(Core(expr))) =>
        /\ output.gen = "check"
        /\ output.assert_condition = Core(expr)
        /\ output.setup = <<StructStmt>>
        /\ Text(output.format_message) = TemplateHeader
        /\ output.dynamic_args = (IF format = <<>> THEN <<>> ELSE <<FormatArgs(format)>>)
        /\ Failed => Text(run.message) = MessageHeader

\* a cast has failed
C6_Witness ==
    /\ Failed
    /\ expr.kind = "Cast"
    /\ expr.expr.kind = "Call"

\* the names of the lines of a method call with n arguments
MethodNames(n) == <<"object">> \o (IF n = 0 THEN <<>> ELSE ArgNames(n))

\* C7: for a method call the receiver is captured and shown on the line
\* object, the arguments are captured and shown on lines arg i as for a
\* call, and the predicate calls the same method, with its turbofish, on
\* the captured receiver with the captured arguments.
C7_MethodCallLines ==
    (Expanded /\ Core(expr).kind = "MethodCall") =>
        LET e == Core(expr)
            n == Len(e.args)
            c == output.assert_condition
        IN  /\ output.gen = "check"
            /\ Text(output.format_message) = TemplateHeader \o TemplateLines(MethodNames(n), 6)
            /\ c.kind = "MethodCall"
            /\ c.method = e.method
            /\ c.turbofish = e.turbofish
            /\ Captures(c.receiver, e.receiver, output.setup)
            /\ Len(c.args) = n
            /\ \A i \in 1..n : Captures(c.args[i], e.args[i], output.setup)
            /\ Failed =>
                 Text(run.message)
                   = MessageHeader
                     \o ReportLines(MethodNames(n),
                            <<DebugOf(e.receiver)>> \o [i \in 1..n |-> DebugOf(e.args[i])], 6)

\* a method call with a turbofish and the most arguments has failed
C7_Witness ==
    /\ Failed
    /\ expr.kind = "MethodCall"
    /\ expr.turbofish # <<>>
    /\ expr.receiver.kind = "Call"
    /\ Len(expr.args) = MaxArgs

\* C8: the message of a failing method call has, between the object line
\* and the first arg line, a line method with the name of the method in
\* quotes, the three kinds of line aligned to one column.
C8_MethodLine ==
    (Failed /\ Core(expr).kind = "MethodCall") =>
        LET e == Core(expr)
            n == Len(e.args)
        IN  Text(run.message)
              = MessageHeader
                \o ReportLines(<<"object", "method">> \o (IF n = 0 THEN <<>> ELSE ArgNames(n)),
                       <<DebugOf(e.receiver), "\"" \o e.method \o "\"">>
                       \o [i \in 1..n |-> DebugOf(e.args[i])], 6)

\* C9: for base[i] with i no literal, i is captured and the message has one
\* line index with its debug text; with i a literal the expression is
\* emitted as written and there is no line; the base is never captured.
C9_IndexLine ==
    (Expanded /\ Core(expr).kind = "Index") =>
        LET e == Core(expr)
            c == output.assert_condition
        IN  /\ output.gen = "check"
            /\ c.kind = "Index"
            /\ c.expr = e.expr
            /\ \A i \in 1..Len(output.setup) :
                  output.setup[i].stmt = "let_wrap" => output.setup[i].expr = e.index
            /\ IF e.index.kind # "Lit"
               THEN /\ Captures(c.index, e.index, output.setup)
                    /\ Len(SetupOf(output.setup, "let_str")) = 1
                    /\ Text(output.format_message)
                         = TemplateHeader \o TemplateLines(<<"index">>, 5)
                    /\ Failed =>
                         Text(run.message)
                           = MessageHeader \o ReportLines(<<"index">>, <<DebugOf(e.index)>>, 5)
               ELSE /\ c = e
                    /\ output.setup = <<StructStmt>>
                    /\ Text(output.format_message) = TemplateHeader
                    /\ Failed => Text(run.message) = MessageHeader

\* get_arr()[idx()] has failed
C9_Witness ==
    /\ Failed
    /\ expr.kind = "Index"
    /\ expr.index.kind = "Call"
    /\ expr.expr.kind = "Call"

HasLine(message, name) == \E i \in 1..Len(message) : message[i] = name

\* C11: the message of a failing !e has the line assertion negated: true
\* and no line original, and the operand is classified in its turn: the
\* operands of a binary operand are on the lines left and right.
C11_NegatedLine ==
    (Failed /\ Core(expr).kind = "Unary" /\ Core(expr).op = "!") =>
        /\ HasLine(run.message, "assertion negated")
        /\ ~HasLine(run.message, "original")
        /\ Core(Core(expr).expr).kind = "Binary" =>
              HasLine(run.message, "left") /\ HasLine(run.message, "right")

\* C12 as stated: the message of a failing cast has a line input
C12_CastInput ==
    (Failed /\ Core(expr).kind = "Cast") => HasLine(run.message, "input")

\* C12, amended: a cast is left as written: its operand is not captured,
\* the template is the header, and the message of a failure has no line
\* input nor any other variable line.
C12_CastNotCaptured ==
    (Expanded /\ Core(expr).kind = "Cast") =>
        /\ output.gen = "check"
        /\ output.assert_condition.kind = "Cast"
        /\ output.assert_condition.expr = Core(expr).expr
        /\ SetupOf(output.setup, "let_wrap") = <<>>
        /\ SetupOf(output.setup, "let_str") = <<>>
        /\ ~HasLine(output.format_message, "input")
        /\ Failed => (~HasLine(run.message, "input") /\ Text(run.message) = MessageHeader)

\* p as bool has failed
C12_Witness ==
    /\ Failed
    /\ expr.kind = "Cast"
    /\ expr.expr.kind = "Path"

\* the text of the whole condition
ExprText == Text(TokensToString(Tokens(expr)))

\* C13: when the whole condition is the token false the expansion is an
\* unconditional panic with the fixed message, without header or variable
\* lines, whether or not there is a format message.
C13_FalseFixedMessage ==
    (Expanded /\ ExprText = "false") =>
        /\ output = [gen |-> "panic_false"]
        /\ pc = "done" =>
              /\ run.outcome = "panic"
              /\ run.trace = <<>>
              /\ Text(run.message) = "surprisingly, 'false' did not evaluate to true"

\* assert!(false, "a={}", a) has panicked
C13_Witness ==
    /\ Failed
    /\ expr = Lit("false")
    /\ format # <<>>

RECURSIVE Fragments(_)
RECURSIVE ArmFragments(_)
\* the fragments of the generated code: g and what is nested in it
Fragments(g) ==
    CASE g.gen \in {"if", "else_if"} ->
            {g} \cup Fragments(g.then_branch) \cup Fragments(g.else_branches)
      [] g.gen = "else_block" -> {g} \cup Fragments(g.body)
      [] g.gen = "match" -> {g} \cup ArmFragments(g.arms)
      [] OTHER -> {g}

ArmFragments(arms) ==
    IF arms = <<>> THEN {}
    ELSE Fragments(Head(arms).body) \cup ArmFragments(Tail(arms))

\* C14: the fast paths are taken exactly when the text of the whole
\* condition is true or false; a literal reached by recursion is an
\* ordinary check under the header, and its failure has the generic message.
C14_FastPathOnlyAtTop ==
    Expanded =>
        /\ (output.gen = "true_flavor") = (ExprText = "true")
        /\ (output.gen = "panic_false") = (ExprText = "false")
        /\ ExprText \notin {"true", "false"} =>
              /\ \A g \in Fragments(output) :
                    /\ g.gen \notin {"true_flavor", "panic_false"}
                    /\ g.gen = "check" =>
                          SubSeq(g.format_message, 1, 2) = <<"assertion ", Backtick>>
              /\ (Classified(expr).kind = "Lit" /\ ~IsErr(output)) =>
                    /\ output.gen = "check"
                    /\ output.assert_condition = Classified(expr)
              /\ Failed => SubSeq(run.message, 1, 2) = <<"assertion ", Backtick>>
              /\ (Failed /\ Core(expr).kind = "Lit") => Text(run.message) = MessageHeader

\* (false) has failed, with the generic message
C14_Witness ==
    /\ Failed
    /\ expr = Paren(Lit("false"))
    /\ Text(run.message) = "assertion '( false )' failed"

\* the lines of a message, as texts
Lines(msg) ==
    LET brk == {i \in 1..Len(msg) : msg[i] = "\n"}
        n == Cardinality(brk)
        at(k) == IF k = 0 THEN 0
                 ELSE IF k = n + 1 THEN Len(msg) + 1
                 ELSE CHOOSE i \in brk : Cardinality({j \in brk : j < i}) = k - 1
    IN  [k \in 1..(n + 1) |-> Text(SubSeq(msg, at(k - 1) + 1, at(k) - 1))]

\* a text right-aligned in w characters
PadText(s, w) == Text(Spaces(Max(w - Len(s), 0))) \o s

\* the lines that follow the header when e alone is asserted where env holds
OwnDiagnostics(e, env) ==
    Tail(Lines(Exec(eval_expr(e, InitialState(<<>>, <<>>)), env, <<>>).message))

\* the statements before the trailing expression, and that expression
Leading(stmts) == SubSeq(stmts, 1, Len(stmts) - 1)
TailOf(stmts) == stmts[Len(stmts)].expr

CausedByBlock(tail) ==
    "  caused by: block return assertion '" \o Text(TokensToString(Tokens(tail)))
    \o "' failed"

RECURSIVE Taken(_, _)
\* the conditions an if chain evaluates in env, and the block it enters
Taken(e, env) ==
    IF IsTrue(Eval(e.cond, env).val) THEN [conds |-> <<e.cond>>, branch |-> e.then_branch]
    ELSE LET el == e.else_branch[1]
         IN  IF el.kind = "If"
             THEN LET rest == Taken(el, env)
                  IN  [conds |-> <<e.cond>> \o rest.conds, branch |-> rest.branch]
             ELSE [conds |-> <<e.cond>>, branch |-> el.stmts]

ConditionName(c) == "condition '" \o Text(TokensToString(Tokens(c))) \o "'"

\* C15: when an if chain fails in the branch taken, the message has, after
\* the header, one line condition '<text>': <value> for each condition
\* evaluated on the way, in source order and aligned, then the one line
\* caused by: block return assertion for the branch taken, then the
\* diagnostics of that branch's trailing expression.
C15_IfChainReport ==
    (Failed /\ Core(expr).kind = "If" /\ Core(expr).else_branch # <<>>) =>
        LET t == Taken(Core(expr), run.env)
            k == Len(t.conds)
            names == [i \in 1..k |-> ConditionName(t.conds[i])]
            w == CHOOSE m \in {Len(names[i]) : i \in 1..k} :
                     \A i \in 1..k : Len(names[i]) <= m
            lines == Lines(run.message)
            tail == TailOf(t.branch)
            env == EvalStmts(Leading(t.branch), run.env).env
        IN  /\ Len(lines) >= k + 2
            /\ lines[1] = MessageHeader
            /\ \A i \in 1..k :
                  lines[1 + i] = "    " \o PadText(names[i], w) \o ": " \o DebugOf(t.conds[i])
            /\ lines[k + 2] = CausedByBlock(tail)
            /\ SubSeq(lines, k + 3, Len(lines)) = OwnDiagnostics(tail, env)

\* if p {..} else if f() {..} else { a == b } has failed in its last branch
C15_Witness ==
    /\ Failed
    /\ expr.kind = "If"
    /\ expr.else_branch # <<>>
    /\ expr.else_branch[1].kind = "If"
    /\ expr.else_branch[1].else_branch # <<>>
    /\ ~IsTrue(run.env["p"])
    /\ ~IsTrue(run.env["f"])
    /\ TailOf(Taken(expr, run.env).branch).kind = "Binary"
    /\ Len(Lines(run.message)) = 6

\* a setup that is pre followed by the captures of caps and nothing else
SetupIs(setup, pre, caps) ==
    /\ Len(setup) >= Len(pre)
    /\ SubSeq(setup, 1, Len(pre)) = pre
    /\ LET own == SubSeq(setup, Len(pre) + 1, Len(setup))
           wraps == SetupOf(own, "let_wrap")
       IN  /\ \A i \in 1..Len(own) : own[i].stmt \in {"let_wrap", "let_str"}
           /\ [i \in 1..Len(wraps) |-> wraps[i].expr]
                = SelectSeq(caps, LAMBDA x : x.kind # "Path")
           /\ Len(SetupOf(own, "let_str")) = Len(caps)

RECURSIVE SetupLocal(_, _, _)
RECURSIVE ElseLocal(_, _)
RECURSIVE ArmsLocal(_, _)

\* the fragment g generated for e, with pre emitted before: its setup is
\* pre and the captures of e's own operands, and what belongs to a branch
\* is in the fragment of that branch, which starts from an empty setup
SetupLocal(g, e, pre) ==
    CASE e.kind \in {"Paren", "Group"} -> SetupLocal(g, e.expr, pre)
      [] e.kind \in {"Block", "Const", "Unsafe"} /\ HasTailExpr(e.stmts) ->
            SetupLocal(g, TailOf(e.stmts), pre \o UserStmts(Leading(e.stmts)))
      [] e.kind \in {"Block", "Const", "Unsafe"} -> g.gen = "if_block" /\ g.setup = pre
      [] e.kind = "If" /\ e.else_branch # <<>> ->
            /\ g.gen = "if"
            /\ SetupIs(g.setup, pre, <<e.cond>>)
            /\ SetupLocal(g.then_branch, Block(e.then_branch), <<>>)
            /\ ElseLocal(g.else_branches, e.else_branch[1])
      [] e.kind = "Match" ->
            /\ g.gen = "match"
            /\ SetupIs(g.setup, pre, <<e.expr>>)
            /\ Len(g.arms) = Len(e.arms)
            /\ ArmsLocal(g.arms, e.arms)
      [] OTHER -> g.gen = "check" /\ SetupIs(g.setup, pre, Captured(e))

ElseLocal(g, el) ==
    CASE el.kind = "Block" -> g.gen = "else_block" /\ SetupLocal(g.body, el, <<>>)
      [] el.kind = "If" /\ el.else_branch # <<>> ->
            /\ g.gen = "else_if"
            /\ SetupIs(g.setup, <<>>, <<el.cond>>)
            /\ SetupLocal(g.then_branch, Block(el.then_branch), <<>>)
            /\ ElseLocal(g.else_branches, el.else_branch[1])
      [] OTHER -> g.gen = "raw"

ArmsLocal(garms, arms) ==
    \/ arms = <<>>
    \/ /\ SetupLocal(Head(garms).body, Head(arms).body, <<>>)
       /\ ArmsLocal(Tail(garms), Tail(arms))

\* the text of the condition uses && or ||
HasLogic == \E i \in 1..Len(Tokens(expr)) : Tokens(expr)[i] \in {<<"&&">>, <<"||">>}

\* C16: in the code generated for an if chain or a match, what classifying
\* a branch adds to the setup (captures, hoisted statements, the condition
\* of a later else if) is inside that branch, which starts from an empty
\* setup; the parent holds the capture of its condition or scrutinee only;
\* and a run evaluates what the branch taken evaluates, nothing of another.
C16_BranchSetupLocal ==
    /\ (Expanded /\ ~IsErr(output) /\ Classified(expr).kind \in {"If", "Match"}
        /\ ExprText \notin {"true", "false"}) =>
           SetupLocal(output, expr, <<StructStmt>>)
    /\ (pc = "done" /\ run.outcome \in {"pass", "panic"} /\ ~HasLogic
        /\ Core(expr).kind \in {"If", "Match"}) =>
           run.trace = Eval(expr, run.env).trace

\* if p { h(a, f()) } else if f() {..} else {..} has run with p true: f ran
\* once, for the argument
C16_Witness ==
    /\ pc = "done"
    /\ run.outcome \in {"pass", "panic"}
    /\ expr.kind = "If"
    /\ expr.else_branch # <<>>
    /\ expr.else_branch[1].kind = "If"
    /\ expr.else_branch[1].cond = f0
    /\ TailOf(expr.then_branch).kind = "Call"
    /\ IsTrue(run.env["p"])
    /\ run.trace = <<"f()", "h()">>

\* the arm a match enters for the value v where env holds: 0 when none
RECURSIVE EnteredFrom(_, _, _, _)
EnteredFrom(arms, k, v, env) ==
    IF k > Len(arms) THEN 0
    ELSE IF /\ PatMatches(arms[k].pat, v)
            /\ arms[k].guard # <<>> => IsTrue(Eval(arms[k].guard[1], env).val)
         THEN k
         ELSE EnteredFrom(arms, k + 1, v, env)

\* the line of the message for a failure in one arm of the match m
CausedByArm(m, arm) ==
    "  caused by: match " \o Text(TokensToString(Tokens(m.expr))) \o " entered arm '"
    \o Text(TokensToString(arm.pat \o GuardTokens(arm))) \o "' where assertion '"
    \o Text(TokensToString(Tokens(arm.body))) \o "' failed"

\* how many times the event ev is in a trace
Times(trace, ev) == Cardinality({i \in 1..Len(trace) : trace[i] = ev})

\* C17: the scrutinee of a match is captured once and is on the line
\* matched value right after the header; when the assertion fails in arm
\* k the message has the line caused by: match .. entered arm .. for arm k,
\* whose pattern text includes the guard, once, right after the matched
\* value, and no such line for another arm; the diagnostics of the body of
\* arm k follow.
C17_MatchReport ==
    LET m == Core(expr)
    IN  /\ (Expanded /\ ~IsErr(output) /\ m.kind = "Match") =>
               /\ output.gen = "match"
               /\ Captures(output.match_expr, m.expr, output.setup)
               /\ Len(SetupOf(output.setup, "let_wrap")) = (IF m.expr.kind = "Path" THEN 0 ELSE 1)
               /\ Len(SetupOf(output.setup, "let_str")) = 1
        /\ (Failed /\ m.kind = "Match") =>
               LET k == EnteredFrom(m.arms, 1, Eval(m.expr, run.env).val, run.env)
                   lines == Lines(run.message)
                   others == {CausedByArm(m, m.arms[j]) : j \in (1..Len(m.arms)) \ {k}}
               IN  /\ k \in 1..Len(m.arms)
                   /\ Len(lines) >= 3
                   /\ lines[1] = MessageHeader
                   /\ lines[2] = "    matched value: " \o DebugOf(m.expr)
                   /\ lines[3] = CausedByArm(m, m.arms[k])
                   /\ \A i \in 4..Len(lines) : lines[i] # lines[3]
                   /\ \A i \in 1..Len(lines) : lines[i] \notin others
                   /\ SubSeq(lines, 4, Len(lines)) = OwnDiagnostics(m.arms[k].body, run.env)
                   /\ m.expr.kind = "Call" => Times(run.trace, CallEvent(m.expr.func)) = 1

\* match n() { 1 => .., _ if b < 2 => a == b, _ => .. } has failed in the
\* guarded arm
C17_Witness ==
    /\ Failed
    /\ expr.kind = "Match"
    /\ expr.expr.kind = "Call"
    /\ EnteredFrom(expr.arms, 1, Eval(expr.expr, run.env).val, run.env) = 2
    /\ expr.arms[2].guard # <<>>
    /\ expr.arms[2].body.kind = "Binary"
    /\ Len(Lines(run.message)) = 5

\* the lines after the header for a failure below e where env holds: one
\* line per block entered, outer to inner, then the diagnostics of the
\* innermost trailing expression
RECURSIVE BlockChain(_, _)
BlockChain(e, env) ==
    CASE e.kind \in {"Paren", "Group"} -> BlockChain(e.expr, env)
      [] e.kind \in {"Block", "Const"} /\ HasTailExpr(e.stmts) ->
            <<CausedByBlock(TailOf(e.stmts))>>
            \o BlockChain(TailOf(e.stmts), EvalStmts(Leading(e.stmts), env).env)
      [] OTHER -> OwnDiagnostics(e, env)

\* how many blocks with a trailing expression e opens one inside the other
RECURSIVE Depth(_)
Depth(e) ==
    CASE e.kind \in {"Paren", "Group"} -> Depth(e.expr)
      [] e.kind \in {"Block", "Const"} /\ HasTailExpr(e.stmts) -> 1 + Depth(TailOf(e.stmts))
      [] OTHER -> 0

\* C18: for a block or const block that ends in an expression, the
\* statements before it are in the setup as written and in order, after
\* the setup generated so far and before the captures of the trailing
\* expression; the message has the line caused by: block return assertion
\* for it before the diagnostics of the trailing expression, and nested
\* blocks give one such line each, outer to inner.
C18_BlockHoist ==
    LET blk == Core(expr)
    IN  (blk.kind \in {"Block", "Const"} /\ HasTailExpr(blk.stmts)) =>
            /\ (Expanded /\ ~IsErr(output)) => SetupLocal(output, expr, <<StructStmt>>)
            /\ Failed => Tail(Lines(run.message)) = BlockChain(expr, run.env)

\* { let a = 1; { a == b } } has failed: two caused by lines, then left
\* and right
C18_Witness ==
    /\ Failed
    /\ expr.kind = "Block"
    /\ Depth(expr) = 2
    /\ Len(Leading(expr.stmts)) = 1
    /\ TailOf(TailOf(expr.stmts).stmts).kind = "Binary"
    /\ output.setup[2] = [stmt |-> "user", s |-> expr.stmts[1]]
    /\ Len(Lines(run.message)) = 5

\* the expressions of a rejected kind at the positions of e that are
\* classified
RECURSIVE Rejects(_)
RECURSIVE RejectsElse(_)
Rejects(e) ==
    CASE e.kind \in RejectKinds -> {e}
      [] e.kind \in {"Paren", "Group"} -> Rejects(e.expr)
      [] e.kind \in {"Block", "Const", "Unsafe"} /\ HasTailExpr(e.stmts) ->
            Rejects(TailOf(e.stmts))
      [] e.kind = "If" /\ e.else_branch # <<>> ->
            Rejects(Block(e.then_branch)) \cup RejectsElse(e.else_branch[1])
      [] e.kind = "Match" -> UNION {Rejects(e.arms[i].body) : i \in 1..Len(e.arms)}
      [] OTHER -> {}

RejectsElse(el) ==
    CASE el.kind = "Block" -> Rejects(el)
      [] el.kind = "If" /\ el.else_branch # <<>> ->
            Rejects(Block(el.then_branch)) \cup RejectsElse(el.else_branch[1])
      [] OTHER -> {}

\* C19: when an expression of a rejected kind is at a classified position
\* (the top, inside parentheses or a group, the trailing expression of a
\* block, the tail of a branch of an if, the body of a match arm), the
\* expansion is the error of that expression and nothing is generated or
\* run, whatever the other branches are.
C19_RejectedAnywhere ==
    (pc # "args" /\ Rejects(expr) # {}) =>
        /\ pc = "rejected"
        /\ output \in {eval_Reject(r) : r \in Rejects(expr)}
        /\ run = NoRun

\* a match whose first two arms are classified and whose last arm is break
C19_Witness ==
    /\ pc = "rejected"
    /\ expr.kind = "Match"
    /\ expr.arms[1].body.kind = "Binary"
    /\ expr.arms[2].body.kind = "Binary"
    /\ expr.arms[3].body.kind = "Break"
    /\ output = Err("Expected a boolean expression, found a break statement", Tok("break"))

\* the qualifier of a fragment of the generated code
Qualifier(g) == IF "possibly_unsafe" \in DOMAIN g THEN g.possibly_unsafe ELSE <<>>

\* how many times the keyword unsafe is written in the condition
UnsafeTokens == Cardinality({i \in 1..Len(Tokens(expr)) : Tokens(expr)[i] = <<"unsafe">>})

\* C20: for an unsafe block the qualifier is on the outermost block that
\* is generated, so the hoisted statements and the captures are inside
\* it; apart from the qualifier the block is classified as the plain
\* block with the same statements is (setup, template, predicate,
\* branches, and the lines of the message of a failure); and no fragment
\* generated for a branch below has a qualifier.
C20_UnsafeOutermost ==
    LET u == Core(expr)
    IN  (Expanded /\ ~IsErr(output) /\ u.kind = "Unsafe" /\ UnsafeTokens = 1) =>
            /\ output.possibly_unsafe = u.attrs \o Tok("unsafe")
            /\ [output EXCEPT !.possibly_unsafe = <<>>]
                 = eval_expr(Block(u.stmts),
                             InitialState(printable_expr_string(Tokens(expr)), format))
            /\ \A g \in Fragments(output) \ {output} : Qualifier(g) = <<>>
            /\ (Failed /\ HasTailExpr(u.stmts)) =>
                  Tail(Lines(run.message)) = BlockChain(Block(u.stmts), run.env)

\* unsafe { let a = 1; if f() { q } else { a == b } } has failed in the
\* else branch
C20_Witness ==
    /\ Failed
    /\ expr.kind = "Unsafe"
    /\ Len(expr.stmts) = 2
    /\ TailOf(expr.stmts).kind = "If"
    /\ output.gen = "if"
    /\ output.possibly_unsafe = Tok("unsafe")
    /\ output.setup[2] = [stmt |-> "user", s |-> expr.stmts[1]]
    /\ output.else_branches.body.possibly_unsafe = <<>>
    /\ ~IsTrue(Eval(f0, run.env).val)
    /\ Len(Lines(run.message)) = 6

\* the names in scope where the check that decides e runs: the environment
\* after the statements of the blocks entered on the way
RECURSIVE Scope(_, _)
Scope(e, env) ==
    CASE e.kind \in {"Paren", "Group"} -> Scope(e.expr, env)
      [] e.kind \in {"Block", "Const", "Unsafe"} /\ HasTailExpr(e.stmts) ->
            Scope(TailOf(e.stmts), EvalStmts(Leading(e.stmts), env).env)
      [] e.kind = "If" /\ e.else_branch # <<>> -> Scope(Block(Taken(e, env).branch), env)
      [] e.kind = "Match" ->
            LET k == EnteredFrom(e.arms, 1, Eval(e.expr, env).val, env)
            IN  IF k = 0 THEN env ELSE Scope(e.arms[k].body, env)
      [] OTHER -> env

\* the user's message, its arguments evaluated where env holds
UserMessage(env) == FormatUser(format[1], env)

\* the run of the code generated for the same condition without a message
Unmessaged == Exec(assert_internal(expr, <<>>), run.env, <<>>)

\* C21: with a format message, and a condition that is not the literal
\* true or false, every check has the template assertion '<text>' failed:
\* {} and the user's message as its first argument, before the captured
\* variables; a failure prints the header, the formatted message and then
\* the variable lines as without a message; the arguments of the message
\* are evaluated last and on a failure only: a run that passes evaluates
\* what it evaluates without a message.
C21_UserMessage ==
    (format # <<>> /\ ExprText \notin {"true", "false"}) =>
        /\ (pc = "expanded" /\ ~IsErr(output)) =>
              \A g \in Fragments(output) : g.gen = "check" =>
                 LET h == Header(printable_expr_string(Tokens(expr))) \o <<": ", "{", "}">>
                 IN  /\ Len(g.format_message) >= Len(h)
                     /\ SubSeq(g.format_message, 1, Len(h)) = h
                     /\ g.dynamic_args[1] = FormatArgs(format)
                     /\ \A i \in 2..Len(g.dynamic_args) : g.dynamic_args[i].arg = "var"
        /\ (pc = "done" /\ run.outcome \in {"pass", "panic"}) =>
              LET u == Unmessaged
                  m == UserMessage(Scope(expr, run.env))
                  lines == Lines(run.message)
              IN  /\ u.outcome = run.outcome
                  /\ Passed => run.trace = u.trace
                  /\ Failed =>
                        /\ lines[1] = "assertion '" \o ExprText \o "' failed: " \o Text(m.text)
                        /\ Tail(lines) = Tail(Lines(u.message))
                        /\ run.trace = u.trace \o m.trace

\* a == b has failed with the message "r={}", r(): r ran, once, at the end
C21_Witness ==
    /\ Failed
    /\ expr = Binary(a, "==", b)
    /\ format[1].args = <<Call(Path("r"), <<>>)>>
    /\ run.trace = <<"r()">>
    /\ Len(Lines(run.message)) = 3
    /\ Lines(run.message)[1] = "assertion 'a == b' failed: r=" \o Text(Debug(run.env["r"]))

\* f() == true passes with the same message: r did not run
C21_PassWitness ==
    /\ Passed
    /\ format # <<>>
    /\ format[1].args = <<Call(Path("r"), <<>>)>>
    /\ expr.kind = "Binary"
    /\ run.trace = <<"f()">>

\* the shapes of an input, read off its items
WellFormedLead(items) ==
    /\ items # <<>>
    /\ items[1].tok = "expr"
    /\ (Len(items) >= 2 /\ items[2].tok = "+") => (Len(items) >= 3 /\ items[3].tok = "expr")

\* what follows a well-formed lead
AfterLead(items) ==
    IF Len(items) >= 2 /\ items[2].tok = "+" THEN SubSeq(items, 4, Len(items)) ELSE Tail(items)

MissingCondition == input = <<>>
MalformedLead == input # <<>> /\ ~WellFormedLead(input)
TrailingComma == WellFormedLead(input) /\ AfterLead(input) = <<CommaItem>>
MissingComma == WellFormedLead(input) /\ AfterLead(input) # <<>> /\ AfterLead(input)[1].tok # ","

\* the parse failed: an error, and no Args
ParseFailed == pc = "rejected" /\ IsErr(output) /\ expr = Unparsed /\ format = <<>>

\* the parse gave the condition and the format message that the input holds
ParseGave ==
    /\ expr # Unparsed
    /\ input = <<ExprItem(expr)>> \o AfterLead(input)
       \/ (expr.kind = "Binary"
           /\ SubSeq(input, 1, 3) = <<ExprItem(expr.left), PlusItem, ExprItem(expr.right)>>)
    /\ format = IF Len(AfterLead(input)) >= 2 THEN <<AfterLead(input)[2].fmt>> ELSE <<>>

\* C22: the parse is an error, and gives no Args, for an empty input, for a
\* condition followed by a comma and nothing else, for a malformed first
\* expression and for a condition followed by tokens without a comma, each
\* with a message of its own; every other input gives the condition and the
\* format message.
C22_ParseErrors ==
    pc # "input" =>
        /\ MissingCondition => ParseFailed /\ output.msg = "missing condition to check"
        /\ MalformedLead =>
              /\ ParseFailed
              /\ output.msg \in
                    {"incomplete expression: unexpected end of input, expected an expression",
                     "Expression before the comma is incomplete: expected an expression",
                     "expected an expression"}
        /\ MissingComma =>
              /\ ParseFailed
              /\ output.msg = "condition has to be followed by a comma, if a message is provided"
        /\ TrailingComma =>
              /\ ParseFailed
              /\ output.msg \notin
                    {"missing condition to check",
                     "incomplete expression: unexpected end of input, expected an expression",
                     "Expression before the comma is incomplete: expected an expression",
                     "expected an expression",
                     "condition has to be followed by a comma, if a message is provided"}
        /\ ~(MissingCondition \/ MalformedLead \/ MissingComma \/ TrailingComma) => ParseGave

\* the same without the case of the trailing comma, which parses
C22_ParseErrorsButTrailing ==
    pc # "input" =>
        /\ MissingCondition => ParseFailed /\ output.msg = "missing condition to check"
        /\ MalformedLead =>
              /\ ParseFailed
              /\ output.msg \in
                    {"incomplete expression: unexpected end of input, expected an expression",
                     "Expression before the comma is incomplete: expected an expression",
                     "expected an expression"}
        /\ MissingComma =>
              /\ ParseFailed
              /\ output.msg = "condition has to be followed by a comma, if a message is provided"
        /\ ~(MissingCondition \/ MalformedLead \/ MissingComma) => ParseGave

\* the checks of the generated code, each with the identifiers of the debug
\* strings bound on the way to it: [check, strs]
RECURSIVE Checks(_, _)
RECURSIVE ArmChecks(_, _)
StrIdents(setup) ==
    LET strs == SetupOf(setup, "let_str") IN [i \in 1..Len(strs) |-> strs[i].ident]

Checks(g, pre) ==
    CASE g.gen = "check" -> {[check |-> g, strs |-> pre \o StrIdents(g.setup)]}
      [] g.gen \in {"if", "else_if"} ->
            Checks(g.then_branch, pre \o StrIdents(g.setup))
            \cup Checks(g.else_branches, pre \o StrIdents(g.setup))
      [] g.gen = "else_block" -> Checks(g.body, pre)
      [] g.gen = "match" -> ArmChecks(g.arms, pre \o StrIdents(g.setup))
      [] OTHER -> {}

ArmChecks(arms, pre) ==
    IF arms = <<>> THEN {}
    ELSE Checks(Head(arms).body, pre) \cup ArmChecks(Tail(arms), pre)

\* the captured variables among the arguments of a panic
VarArgs(dynamic_args) ==
    LET v == SelectSeq(dynamic_args, LAMBDA d : d.arg = "var")
    IN  [i \in 1..Len(v) |-> v[i].ident]

\* C23: at every panic of the generated code the template has as many
\* placeholders as the panic has arguments, in the same order: it is well
\* formed, each placeholder is the value of a line (it follows ": "), the
\* user's message comes first and the debug strings follow in the order in
\* which they were bound; braces of the text of the expression, of an if
\* condition, of a pattern or of an arm body are doubled and are no
\* placeholders; and this holds in the branches, after State::fork.
C23_PlaceholdersMatchArgs ==
    (pc = "expanded" /\ ~IsErr(output)) =>
        \A c \in Checks(output, <<>>) :
            LET t == c.check.format_message
                args == c.check.dynamic_args
            IN  /\ \A i \in 1..Len(t) : ~BadPair(t, i)
                /\ Cardinality(Placeholders(t)) = Len(args)
                /\ \A i \in Placeholders(t) : i > 1 /\ t[i - 1] = ": "
                /\ \A k \in 1..Len(args) : (args[k].arg = "format_args") = (k = 1 /\ format # <<>>)
                /\ VarArgs(args) = c.strs
                /\ Cardinality({i \in 1..Len(t) : IsBrace(t[i])})
                     = 2 * Len(args)
                       + 2 * Cardinality({j \in 1..Len(t) : IsBrace(t[j]) /\ ~OpensPair(t, j)
                                                          /\ t[j - 1] = t[j]})

\* if { p } { .. } else if f() { .. } else { a == b } has failed in the
\* last branch: braces in the text, two conditions, left and right
C23_Witness ==
    /\ Failed
    /\ expr \in Braced
    /\ expr.kind = "If"
    /\ expr.cond.kind = "Block"
    /\ \E c \in Checks(output, <<>>) :
          /\ Len(c.check.dynamic_args) = 4 + Len(format)
          /\ Cardinality({i \in 1..Len(c.check.format_message) :
                             IsBrace(c.check.format_message[i])}) > 2 * (4 + Len(format))
    /\ Len(Lines(run.message)) = 6

\* the identifiers a setup binds, in order
Bound(setup) ==
    LET lets == SelectSeq(setup, LAMBDA st : st.stmt \in {"let_wrap", "let_str"})
    IN  [i \in 1..Len(lets) |-> lets[i].ident]

\* every identifier create_ident made in the expansion, one entry for each
\* time it was made: those of a fragment, then those of what is nested in it
RECURSIVE Created(_)
RECURSIVE ArmsCreated(_)
Created(g) ==
    CASE g.gen = "check" -> Bound(g.setup)
      [] g.gen = "if_block" -> Bound(g.setup)
      [] g.gen \in {"if", "else_if"} ->
            Bound(g.setup) \o Created(g.then_branch) \o Created(g.else_branches)
      [] g.gen = "else_block" -> Created(g.body)
      [] g.gen = "match" -> Bound(g.setup) \o ArmsCreated(g.arms)
      [] OTHER -> <<>>

ArmsCreated(arms) ==
    IF arms = <<>> THEN <<>> ELSE Created(Head(arms).body) \o ArmsCreated(Tail(arms))

RECURSIVE Chains(_, _)
RECURSIVE ArmChains(_, _)
Chains(g, pre) ==
    CASE g.gen \in {"check", "if_block"} -> {pre \o Bound(g.setup)}
      [] g.gen \in {"if", "else_if"} ->
            Chains(g.then_branch, pre \o Bound(g.setup))
            \cup Chains(g.else_branches, pre \o Bound(g.setup))
      [] g.gen = "else_block" -> Chains(g.body, pre)
      [] g.gen = "match" -> ArmChains(g.arms, pre \o Bound(g.setup))
      [] OTHER -> {pre}

ArmChains(arms, pre) ==
    IF arms = <<>> THEN {pre}
    ELSE Chains(Head(arms).body, pre) \cup ArmChains(Tail(arms), pre)

LineAtoms(msg) ==
    LET brk == {i \in 1..Len(msg) : msg[i] = "\n"}
        n == Cardinality(brk)
        at(k) == IF k = 0 THEN 0
                 ELSE IF k = n + 1 THEN Len(msg) + 1
                 ELSE CHOOSE i \in brk : Cardinality({j \in brk : j < i}) = k - 1
    IN  [k \in 1..(n + 1) |-> SubSeq(msg, at(k - 1) + 1, at(k) - 1)]

\* a line that shows a variable: it is indented by four and has a colon
IsVariableLine(line) ==
    /\ line # <<>>
    /\ line[1] = "    "
    /\ \E i \in 1..Len(line) : line[i] = ": "

\* the column of the colon, and the padding before the name
ColonColumn(line) ==
    LET i == CHOOSE k \in 1..Len(line) :
                 line[k] = ": " /\ \A j \in 1..(k - 1) : line[j] # ": "
    IN  StrLen(SubSeq(line, 1, i - 1))

Padding(line) ==
    Cardinality({k \in 2..Len(line) : \A j \in 2..k : line[j] = " "})

\* lines i..j of a message are one group of variables: a longest run of
\* variable lines
IsGroup(lines, i, j) ==
    /\ i <= j
    /\ \A k \in i..j : IsVariableLine(lines[k])
    /\ (i = 1 \/ ~IsVariableLine(lines[i - 1]))
    /\ (j = Len(lines) \/ ~IsVariableLine(lines[j + 1]))

\* C25: the variables pending at a flush are written as one group, in the
\* order in which they were added and each once, and in the message every
\* group has its colons in one column, the longest name of the group
\* directly after the four spaces; this for every name, those of conditions
\* whose text has braces included.
C25_GroupsAligned ==
    /\ (pc = "expanded" /\ ~IsErr(output)) =>
          \A c \in Checks(output, <<>>) : VarArgs(c.check.dynamic_args) = c.strs
    /\ Failed =>
          LET lines == LineAtoms(run.message)
          IN  \A i, j \in 2..Len(lines) :
                  IsGroup(lines, i, j) =>
                      /\ \A k \in i..j : ColonColumn(lines[k]) = ColonColumn(lines[i])
                      /\ \E k \in i..j : Padding(lines[k]) = 0

\* the same, of the conditions whose names have no brace
C25_GroupsAlignedUnbraced ==
    (expr \in Conditions) => C25_GroupsAligned

\* if { p } {..} else if f() {..} else { a == b } has failed in its last
\* branch: two conditions in one group, one of them with braces
C25_Witness ==
    /\ Failed
    /\ expr \in Braced
    /\ expr.kind = "If"
    /\ expr.cond.kind = "Block"
    /\ LET lines == LineAtoms(run.message)
       IN  \E i \in 2..Len(lines) : IsGroup(lines, i, i + 1)

\* the names create_ident is called with
IdentNames ==
    LET base == {"lhs", "rhs", "object", "index", "original", "input", "condition", "matched"}
                \cup {"arg" \o to_string(i) : i \in 0..MaxArgs}
    IN  base \cup {n \o "_str" : n \in base}

\* the identifier has the number k
HasNumber(ident, k) ==
    \E name \in IdentNames : ident = "__one_assert_" \o name \o "_" \o to_string(k)

\* the identifiers are numbered 0, 1, .. with no number left out or repeated
NumberedFromZero(chain) ==
    \A k \in 0..(Len(chain) - 1) :
        Cardinality({i \in 1..Len(chain) : HasNumber(chain[i], k)}) = 1

RECURSIVE OutsideUnsafe(_)
RECURSIVE OutsideUnsafeArms(_)
OutsideUnsafeBlock(stmts) ==
    IF HasTailExpr(stmts)
    THEN {stmts[i] : i \in 1..(Len(stmts) - 1)} \cup OutsideUnsafe(TailOf(stmts))
    ELSE {stmts[i] : i \in 1..Len(stmts)}

OutsideUnsafe(e) ==
    CASE e.kind \in {"Block", "Const"} -> OutsideUnsafeBlock(e.stmts)
      [] e.kind \in {"Group", "Paren"} -> OutsideUnsafe(e.expr)
      [] e.kind = "If" ->
            OutsideUnsafeBlock(e.then_branch)
            \cup (IF e.else_branch = <<>> THEN {} ELSE OutsideUnsafe(e.else_branch[1]))
      [] e.kind = "Match" -> OutsideUnsafeArms(e.arms)
      [] OTHER -> {}

OutsideUnsafeArms(arms) ==
    IF arms = <<>> THEN {}
    ELSE OutsideUnsafe(Head(arms).body) \cup OutsideUnsafeArms(Tail(arms))

\* the statements of the condition that a fragment runs
Hoisted(g) ==
    IF "setup" \in DOMAIN g
    THEN {g.setup[i].s : i \in {j \in 1..Len(g.setup) : g.setup[j].stmt = "user"}}
    ELSE {}

\* the fragment's panic has the user's message among its arguments
PanicsWithMessage(g) ==
    /\ g.gen = "check"
    /\ \E i \in 1..Len(g.dynamic_args) : g.dynamic_args[i].arg = "format_args"

\* C27: a block of the generated code that is qualified unsafe holds no
\* code that stood outside every unsafe block of the condition: no
\* statement from before an unsafe block, and not the arguments of the
\* user's message.
C27_UnsafeHoldsOnlyUnsafe ==
    (pc = "expanded" /\ ~IsErr(output)) =>
        \A g \in Fragments(output) :
            Qualifier(g) # <<>> =>
                \A h \in Fragments(g) :
                    /\ Hoisted(h) \cap OutsideUnsafe(expr) = {}
                    /\ ~PanicsWithMessage(h)

\* the part of C27 about the statements, where there is no message
C27_StatementsStayOutside ==
    (pc = "expanded" /\ ~IsErr(output)) =>
        \A g \in Fragments(output) :
            Qualifier(g) # <<>> =>
                \A h \in Fragments(g) : Hoisted(h) \cap OutsideUnsafe(expr) = {}

\* two events that both traces have stand in the same order in both
SameOrder(t, o) ==
    \A i, j \in 1..Len(t) : \A k, l \in 1..Len(o) :
        (i < j /\ t[i] # t[j] /\ o[k] = t[i] /\ o[l] = t[j]) => k < l

\* C28: what the generated code evaluates, it evaluates in the order in
\* which evaluating the condition itself does: the callee before the
\* arguments of a call, the base before the index.
C28_SourceOrder ==
    (pc = "done" /\ run.outcome \in {"pass", "panic"}) =>
        SameOrder(run.trace, Eval(expr, run.env).trace)

\* the same, but for a callee that is itself evaluated and for the base
\* of an index
C28_SourceOrderButCallee ==
    (/\ ~(Core(expr).kind = "Call" /\ Core(expr).func.kind # "Path")
     /\ Core(expr).kind # "Index") => C28_SourceOrder

\* the numbers of the identifiers a fragment binds in its own block
Numbers(g) ==
    IF "setup" \in DOMAIN g
    THEN LET ids == Bound(g.setup)
         IN  {k \in 0..Len(Created(output)) : \E i \in 1..Len(ids) : HasNumber(ids[i], k)}
    ELSE {}

\* the fragment binds no identifier twice and its numbers are above those
\* of the blocks around it, and so do the fragments in it
RECURSIVE Scoped(_, _)
RECURSIVE ArmsScoped(_, _)
OwnScoped(g, above) ==
    /\ "setup" \in DOMAIN g =>
          /\ Distinct(Bound(g.setup))
          /\ Cardinality(Numbers(g)) = Len(Bound(g.setup))
    /\ \A n \in Numbers(g) : \A m \in above : m < n

Scoped(g, above) ==
    /\ OwnScoped(g, above)
    /\ CASE g.gen \in {"if", "else_if"} ->
               /\ Scoped(g.then_branch, above \cup Numbers(g))
               /\ Scoped(g.else_branches, above \cup Numbers(g))
         [] g.gen = "else_block" -> Scoped(g.body, above)
         [] g.gen = "match" -> ArmsScoped(g.arms, above \cup Numbers(g))
         [] OTHER -> TRUE

ArmsScoped(arms, above) ==
    \A i \in 1..Len(arms) : Scoped(arms[i].body, above)

\* C29: no block of the generated code binds an identifier twice, and the
\* identifiers bound in the block of a branch have numbers above all those
\* bound in the blocks around it, so none of them is one of those: the
\* branch counts on from where its parent stood, and the parent makes no
\* identifier after it has forked.
C29_NoRebinding ==
    (pc = "expanded" /\ ~IsErr(output)) => Scoped(output, {})

\* if p {..} else if f() {..} else { a == b }: the first condition is 0, the
\* second 1 and 2, and the last branch binds 3 and 4
C29_Witness ==
    /\ pc = "expanded"
    /\ ~IsErr(output)
    /\ output.gen = "if"
    /\ output.else_branches.gen = "else_if"
    /\ Numbers(output) = {0}
    /\ Numbers(output.else_branches) = {1, 2}
    /\ Numbers(output.else_branches.else_branches.body) = {3, 4}

\* C30: the arguments of the user's message are evaluated with the names of
\* the place of the call: the first line of the message of a failure is the
\* header and the user's message formatted where the macro was invoked,
\* whatever the statements of the condition bind (the literals true and
\* false, which print no message, apart).
C30_CallSiteScope ==
    (Failed /\ format # <<>> /\ ExprText \notin {"true", "false"}) =>
        Lines(run.message)[1] = MessageHeader

\* the same, of the conditions in which the check that fails has no
\* binding of the condition before it
C30_CallSiteScopeUnbound ==
    (Failed /\ format # <<>> /\ ExprText \notin {"true", "false"}
     /\ Scope(expr, run.env) = run.env) =>
        Lines(run.message)[1] = MessageHeader
====
